---- MODULE Spec2Model ----
(***************************************************************************)
(* Model of the quaere query engine: one QueryInfo (the entry of one       *)
(* query hash), the Retryers it spawns, its GC timer and its slot in the   *)
(* QueryCache.  Every function of the source is an operator from a record  *)
(* of the mutable cells ("world") to the record after the call, so that    *)
(* an action is the composition of the calls its handler makes.            *)
(***************************************************************************)
EXTENDS Integers, Sequences, FiniteSets, TLC

\* ---------------------------------------------------------------- bounds
MaxRetryers == 2        \* retryers of one entry alive at the same time
MaxListeners == 1       \* ObservableQuery instances subscribed to the entry
MaxNow == 4             \* last value of the clock
MaxEntries == 3         \* QueryInfo instances the QueryCache ever creates
MaxRemoved == 2         \* 'removed' events counted per entry
MaxMutations == 1       \* MutationInfo instances the MutationCache ever creates
MaxData == 2            \* data references a query's state.data goes through
MaxSelectCalls == 3     \* selector runs counted per ObservableQuery
MaxObservers == 4       \* ObservableQuery instances an ObservableQueries creates
MaxCombined == 2        \* listeners of an ObservableQueries
MaxPageParam == 3       \* page params of an infinite query are 0..MaxPageParam
MaxPagesAsked == 3      \* the largest `pages` a fetch of it is given
MaxUpdatedAt == 2       \* dataUpdatedAt of the entries that are hydrated

\* ------------------------------------------------------ values and inputs
UNDEFINED == "undefined"
NULL == "null"
Infinity == 1000000
FetchedData == "fetched"               \* what the fetcher resolves with
ManualData == "manual"                 \* what setData / setQueryData stores
InitialData == "initial"               \* options.initialData, when given
FetcherResults == {FetchedData, UNDEFINED}
Metas == {UNDEFINED}                   \* fetchOptions.meta
NoUpdatedAt == -1                      \* setDataOptions.updatedAt absent
StaleTimes == {0, 2, Infinity}             \* staleTime of fetchQuery / isStaleByTime
ResolvedWithData == -1                 \* fetchQuery returned Promise.resolve(state.data)
TypeFilters == {UNDEFINED, "all", "active", "inactive"}          \* filters.type
RefetchTypes == {UNDEFINED, "none", "all", "active", "inactive"} \* filters.refetchType

NoError == [kind |-> NULL, revert |-> FALSE, silent |-> FALSE]
TransportError == [kind |-> "TransportError", revert |-> FALSE, silent |-> FALSE]
UndefinedDataError == [kind |-> "UndefinedDataError", revert |-> FALSE, silent |-> FALSE]
CancelledError(cancelOptions) ==
    [kind |-> "CancelledError", revert |-> cancelOptions.revert, silent |-> cancelOptions.silent]
isCancelledError(value) == value.kind = "CancelledError"

PendingPromise == [settled |-> "pending", value |-> UNDEFINED, error |-> NoError]
NoRetryer ==
    [phase |-> "none", isResolved |-> FALSE, isRetryCancelled |-> FALSE,
     failureCount |-> 0, calls |-> 0, aborted |-> FALSE, promise |-> PendingPromise]
NoRevertState == [defined |-> FALSE]

Hashes == {"a", "b"}                   \* query hashes the clients ask for
Entries == 1..MaxEntries
NoEntry ==
    [queryHash |-> NULL, observers |-> 0, gcTimeout |-> FALSE,
     added |-> 0, removed |-> 0]

\* mutations
Mutations == 1..MaxMutations
MutationData == "mutationData"         \* what the mutation function resolves with
MutationError == "MutationError"       \* what the mutation function rejects with
CallbackError == "CallbackError"       \* what a throwing callback throws
SuccessCallbacks == <<"cache.onSuccess", "onSuccess", "cache.onSettled", "onSettled">>
ErrorCallbacks == <<"cache.onError", "onError", "cache.onSettled", "onSettled">>
MaxTriggers == 2        \* trigger() calls one MutationInfo ever sees
Triggers == 1..MaxTriggers
MutationVariables == {"a", "b"}        \* what trigger() is called with
NoTrigger ==
    [pc |-> "none", variables |-> UNDEFINED, calls |-> 0, data |-> UNDEFINED,
     caught |-> NULL, promise |-> "pending", offline |-> FALSE]
NoMutationInfo ==
    [created |-> FALSE, networkMode |-> "online",
     state |-> [status |-> "idle", data |-> UNDEFINED, error |-> NULL,
                variables |-> UNDEFINED],
     triggers |-> [t \in Triggers |-> NoTrigger],
     dispatched |-> <<>>, notified |-> 0, from |-> "none"]
NoMutation ==
    [created |-> FALSE, registered |-> FALSE, removed |-> 0,
     state |-> [status |-> "idle", data |-> UNDEFINED, error |-> NULL],
     listeners |-> 0, gcTimeout |-> FALSE, gcOutcomes |-> {},
     pc |-> "none", path |-> "none", callback |-> 0, caught |-> NULL,
     fetcherFailed |-> FALSE, threw |-> FALSE, events |-> <<>>,
     promise |-> [settled |-> "pending", value |-> UNDEFINED]]

\* observers
DataRefs == 1..MaxData                  \* references of defined data; 0 is undefined
Selects == {"count", "length", "wrap", "throws"}  \* selector functions an observer is given
NoSelect == UNDEFINED                   \* options.select absent
ResultProps == {"data", "error", "isLoading"}   \* properties of a result
NotifyOptions == {UNDEFINED, "listeners: false", "listeners: true"}
NoResult == [defined |-> FALSE, data |-> 0, error |-> NULL, isLoading |-> TRUE]
NoObserver ==
    [created |-> FALSE, mounted |-> FALSE, data |-> 0, select |-> NoSelect,
     currentResult |-> NoResult, currentResultState |-> 0,
     currentResultOptions |-> NoSelect, selectResult |-> 0, selectError |-> NULL,
     selectCalls |-> 0, derived |-> FALSE, derivedData |-> 0,
     derivedSelect |-> NoSelect, trackedProps |-> {}, throwOnError |-> FALSE,
     notified |-> "unchanged"]

ObserverIds == 1..MaxObservers
\* the lists of queries given to setQueries: distinct hashes, any order
QueryLists ==
    {<<>>} \cup {<<h>> : h \in Hashes}
           \cup {<<g, h>> : <<g, h>> \in {x \in Hashes \X Hashes : x[1] # x[2]}}
NoObservableQueries ==
    [obsQueries |-> <<>>, result |-> <<>>, created |-> 0,
     hash |-> [o \in ObserverIds |-> NULL], subscribed |-> {},
     listeners |-> 0, entry |-> [h \in Hashes |-> "stale"],
     emitted |-> 0, subscribedNow |-> {}, destroyedNow |-> {},
     mountFetches |-> 0, call |-> "none"]

\* page params are numbers, undefined or null
UndefinedParam == 0 - 1
NullParam == 0 - 2
PageParams == 0..MaxPageParam
InitialPageParam == 1
NoMaxPages == 0                       \* options.maxPages left undefined
MaxPagesOptions == {NoMaxPages, 2}
Directions == {UNDEFINED, "forward", "backward"}
EmptyData == [pages |-> <<>>, pageParams |-> <<>>]
\* what the server of an infinite query holds: the params first..last, and
\* what its page param functions answer beyond them
Servers ==
    [first : 0..InitialPageParam, last : InitialPageParam..MaxPageParam,
     none : {UndefinedParam, NullParam}]
NoInfinite ==
    [data |-> EmptyData, defined |-> FALSE, maxPages |-> NoMaxPages,
     server |-> [first |-> InitialPageParam, last |-> InitialPageParam,
                 none |-> UndefinedParam],
     calls |-> <<>>, outcome |-> "none", direction |-> UNDEFINED,
     pages |-> 0, oldData |-> EmptyData]

\* the keys of the caches that are dehydrated and hydrated, the second one
\* made by generatekey(); the hash of a key without variables is the key
HydrationKeys == {"string", "$q$1"}
GeneratedKeys == {"$q$1"}
HydrationTimes == 1..MaxUpdatedAt
NoLive ==
    [exists |-> FALSE, status |-> "pending", fetchStatus |-> "idle", data |-> 0,
     dataUpdatedAt |-> 0, error |-> NULL]
\* the states of an entry of a cache that is dehydrated
LiveStates ==
    [exists : {TRUE}, status : {"pending"}, fetchStatus : {"idle", "fetching"},
     data : {0}, dataUpdatedAt : {0}, error : {NULL}]
    \cup [exists : {TRUE}, status : {"success"}, fetchStatus : {"idle", "fetching"},
          data : 1..MaxData, dataUpdatedAt : HydrationTimes, error : {NULL}]
    \cup [exists : {TRUE}, status : {"error"}, fetchStatus : {"idle"},
          data : {0}, dataUpdatedAt : {0}, error : {"Error"}]
\* the caches a client may be dehydrated from
ServerCaches == [HydrationKeys -> LiveStates \cup {NoLive}]
DehydrateFilters == {UNDEFINED, "() => true"}
NoHydration ==
    [client |-> [k \in HydrationKeys |-> NoLive], clock |-> 1,
     payload |-> [k \in HydrationKeys |-> NoLive],
     before |-> [k \in HydrationKeys |-> NoLive], hydrated |-> FALSE]

\* the values hashed as variables: a number, undefined, null, NaN, or a plain
\* object given by its properties in insertion order, nested once
Atom(a) == [atom |-> a, props |-> <<>>]
Obj(props) == [atom |-> "object", props |-> props]
KeyNames == {"k", "l"}                 \* query keys
SortedProps == <<"a", "b">>            \* property names, as sort() orders them
PropNames == {SortedProps[i] : i \in 1..Len(SortedProps)}
InnerAtoms == {"1"}
OuterAtoms == {"1", "2", "undefined", "null", "NaN"}
PropLists(values) ==
    {<<>>} \cup {<<<<k, v>>>> : k \in PropNames, v \in values}
           \cup {<<<<k, v>>, <<l, w>>>> :
                    <<k, v, l, w>> \in {x \in PropNames \X values \X PropNames \X values :
                                          x[1] # x[3]}}
InnerObjects == {Obj(props) : props \in PropLists({Atom(a) : a \in InnerAtoms})}
Variables ==
    {Atom(a) : a \in OuterAtoms}
    \cup {Obj(props) : props \in PropLists({Atom(a) : a \in OuterAtoms} \cup InnerObjects)}
NoKeys ==
    [key |-> "k", variables |-> Atom("undefined"), other |-> Atom("undefined"),
     hash |-> "[]", otherHash |-> "[]", step |-> "none"]

\* what a listener of an entry does when it is notified of a transition
Reactions == {"none", "setData", "invalidate", "cancel", "fetch"}
ActionTypes ==
    {"pause", "continue", "fetch", "success", "error", "invalidate", "setState"}

VARIABLES
    state,                 \* QueryInfoState of the entry
    revertState,           \* snapshot taken by fetch(), NoRevertState before
    retryers,              \* the Retryer closures of the entry, by slot
    retryer,               \* slot of the entry's current retryer, 0 = undefined
    abortSignalConsumed,
    isFetchingOptimistic,
    listeners,             \* number of subscribed ObservableQuery instances
    disabled,              \* how many of them have options.enabled = false
    gcTimeout,             \* TRUE while the GC timer is armed
    options,               \* the entry's options and its fetcher: [retry,
                           \* networkMode, gcTime, readsSignal, results]
    queries,               \* TRUE while the entry is registered in the QueryCache
    online, focused,       \* onlineManager / focusManager
    now,                   \* Date.now()
    registry,              \* the QueryCache as a registry of idle entries:
                           \* [queries: hash -> entry or 0, info: entry -> its
                           \* hash, observers, GC timer and events broadcast]
    mutationCache,         \* the MutationCache: by MutationInfo its state,
                           \* listeners, GC timer, the position of its
                           \* trigger() and the events of that call
    observer,              \* an ObservableQuery: the data reference of its
                           \* QueryInfo, its options.select and what it
                           \* remembers of its last result
    observableQueries,     \* an ObservableQueries: its obsQueries, who holds
                           \* its onUpdate listener, its own listeners, the
                           \* entries' fetch status and what the last step
                           \* emitted
    infinite,              \* an infinite query: its cached pages, its
                           \* server, and the fetcher calls, the direction
                           \* and the outcome of its last fetch
    hydration,             \* a client cache that is hydrated: its entries,
                           \* its clock, the payload of the last hydrate and
                           \* the entries before it
    keys,                  \* a key with two values of variables, the second
                           \* made from the first, and their hashes
    notifications,         \* of the last dispatch a listener reacted to: the
                           \* transitions applied, the listener's and the
                           \* cache's notifications, in order
    mutationInfo,          \* a MutationInfo that is triggered more than
                           \* once: its state, its options.networkMode, the
                           \* trigger() calls under way and what the last
                           \* step dispatched
    log,                   \* events of the last step, in order
    returned               \* slot whose promise the last step's fetch() returned

\* the state of the further objects modelled below
rest == <<observableQueries, infinite, hydration, keys, notifications, mutationInfo>>

vars == <<state, revertState, retryers, retryer, abortSignalConsumed,
          isFetchingOptimistic, listeners, disabled, gcTimeout, options, queries,
          online, focused, now, registry, mutationCache, observer, rest, log,
          returned>>

Slots == 1..MaxRetryers

\* ---------------------------------------------------------------- world
World ==
    [state |-> state, revertState |-> revertState, retryers |-> retryers,
     retryer |-> retryer, abortSignalConsumed |-> abortSignalConsumed,
     isFetchingOptimistic |-> isFetchingOptimistic, gcTimeout |-> gcTimeout,
     queries |-> queries, log |-> <<>>, returned |-> 0,
     online |-> online, focused |-> focused]

\* A retryer the entry no longer refers to is resolved: nothing reads its
\* flags or its promise again, and once its chain has ended or waits for a
\* continue() that only the entry's current retryer receives, it is gone.
Collect(w) ==
    [w EXCEPT !.retryers =
        [r \in Slots |->
            IF r = w.retryer \/ ~w.retryers[r].isResolved
            THEN w.retryers[r]
            ELSE IF w.retryers[r].phase \in {"inflight", "sleeping"}
                 THEN [NoRetryer EXCEPT !.phase = w.retryers[r].phase,
                                        !.isResolved = TRUE,
                                        !.calls = w.retryers[r].calls]
                 ELSE NoRetryer]]

Commit(w) ==
    LET c == Collect(w) IN
    /\ state' = c.state
    /\ revertState' = c.revertState
    /\ retryers' = c.retryers
    /\ retryer' = c.retryer
    /\ abortSignalConsumed' = c.abortSignalConsumed
    /\ isFetchingOptimistic' = c.isFetchingOptimistic
    /\ gcTimeout' = c.gcTimeout
    /\ queries' = c.queries
    /\ log' = c.log
    /\ returned' = c.returned

Emit(w, event) == [w EXCEPT !.log = Append(@, event)]

\* ------------------------------------------------------------- utilities
isValidTimeout(value) == value >= 0 /\ value # Infinity

canFetch(w, networkMode) == IF networkMode = "online" THEN w.online ELSE TRUE

shouldPause(w) == ~w.focused \/ (options.networkMode # "always" /\ ~w.online)

\* ------------------------------------------------------------ GC manager
ClearGcTimeout(w) == [w EXCEPT !.gcTimeout = FALSE]

ScheduleGc(w) == [w EXCEPT !.gcTimeout = isValidTimeout(options.gcTime)]

\* -------------------------------------------------------------- dispatch
\* options.initialData and options.initialDataUpdatedAt, absent by default
InitialDataOf(opts) ==
    IF "initialData" \in DOMAIN opts THEN opts.initialData ELSE UNDEFINED
InitialDataUpdatedAtOf(opts) ==
    IF "initialDataUpdatedAt" \in DOMAIN opts THEN opts.initialDataUpdatedAt ELSE NoUpdatedAt

getDefaultState ==
    LET data == InitialDataOf(options)
        hasData == data # UNDEFINED
        initialDataUpdatedAt == IF hasData THEN InitialDataUpdatedAtOf(options) ELSE 0
    IN  [data |-> data,
         dataUpdatedAt |-> IF hasData
                           THEN (IF initialDataUpdatedAt = NoUpdatedAt
                                 THEN now ELSE initialDataUpdatedAt)
                           ELSE 0,
         error |-> NoError, fetchMeta |-> NULL, isInvalidated |-> FALSE,
         status |-> IF hasData THEN "success" ELSE "pending",
         fetchStatus |-> "idle"]

\* mutation: the fetch action resets status and error whatever is cached
ReduceFetchAlwaysPending(w, action) ==
    [w.state EXCEPT
        !.fetchMeta = IF action.meta = UNDEFINED THEN NULL ELSE action.meta,
        !.fetchStatus = IF canFetch(w, options.networkMode)
                        THEN "fetching" ELSE "paused",
        !.error = NoError, !.status = "pending"]

ReduceFetch(w, action) ==
    LET s == w.state
        s1 == [s EXCEPT
                !.fetchMeta = IF action.meta = UNDEFINED THEN NULL ELSE action.meta,
                !.fetchStatus = IF canFetch(w, options.networkMode)
                                THEN "fetching" ELSE "paused"]
    IN  IF s.dataUpdatedAt = 0
        THEN [s1 EXCEPT !.error = NoError, !.status = "pending"]
        ELSE s1

\* mutation: a manual success action ends the fetch status as a fetched one does
ReduceSuccessAlwaysIdle(s, action) ==
    [s EXCEPT !.data = action.data,
              !.dataUpdatedAt = IF action.dataUpdatedAt = NoUpdatedAt
                                THEN now ELSE action.dataUpdatedAt,
              !.error = NoError,
              !.isInvalidated = FALSE,
              !.status = "success",
              !.fetchStatus = "idle"]

ReduceSuccess(s, action) ==
    LET s1 == [s EXCEPT
                !.data = action.data,
                !.dataUpdatedAt = IF action.dataUpdatedAt = NoUpdatedAt
                                  THEN now ELSE action.dataUpdatedAt,
                !.error = NoError,
                !.isInvalidated = FALSE,
                !.status = "success"]
    IN  IF ~action.manual THEN [s1 EXCEPT !.fetchStatus = "idle"] ELSE s1

\* mutation: the error action never rolls back
ReduceErrorNoRevert(w, action) ==
    [w.state EXCEPT !.error = action.error, !.fetchStatus = "idle", !.status = "error"]

ReduceError(w, action) ==
    IF isCancelledError(action.error) /\ action.error.revert
       /\ w.revertState # NoRevertState
    THEN w.revertState
    ELSE [w.state EXCEPT !.error = action.error,
                         !.fetchStatus = "idle", !.status = "error"]

Reducer(w, action) ==
    LET s == w.state IN
    CASE action.type = "pause" -> [s EXCEPT !.fetchStatus = "paused"]
      [] action.type = "continue" -> [s EXCEPT !.fetchStatus = "fetching"]
      [] action.type = "fetch" -> ReduceFetch(w, action)
      [] action.type = "success" -> ReduceSuccess(s, action)
      [] action.type = "error" -> ReduceError(w, action)
      [] action.type = "invalidate" -> [s EXCEPT !.isInvalidated = TRUE]
      [] action.type = "setState" -> action.state

Dispatch(w, action) ==
    Emit([w EXCEPT !.state = Reducer(w, action)], action.type)

\* ---------------------------------------------------- QueryInfo callbacks
\* onError of fetch(): the error action unless the cancellation is silent,
\* the cache callbacks unless cancelled, then the GC timer.
OnError(w, error) ==
    LET w1 == IF ~(isCancelledError(error) /\ error.silent)
              THEN Dispatch(w, [type |-> "error", error |-> error])
              ELSE w
        w2 == IF ~isCancelledError(error)
              THEN Emit(Emit(w1, "cache.onError"), "cache.onSettled")
              ELSE w1
        w3 == IF ~w2.isFetchingOptimistic THEN ScheduleGc(w2) ELSE w2
    IN  [w3 EXCEPT !.isFetchingOptimistic = FALSE]

\* setData(): replaceData keeps the value, then the success action
SetDataOp(w, newData, updatedAt, manual) ==
    Dispatch(w, [type |-> "success", data |-> newData,
                 dataUpdatedAt |-> updatedAt, manual |-> manual])

\* onSuccess of the retryer created by fetch()
OnSuccess(w, data) ==
    IF data = UNDEFINED
    THEN OnError(w, UndefinedDataError)
    ELSE LET w1 == SetDataOp(w, data, NoUpdatedAt, FALSE)
             w2 == Emit(Emit(w1, "cache.onSuccess"), "cache.onSettled")
             w3 == IF ~w2.isFetchingOptimistic THEN ScheduleGc(w2) ELSE w2
         IN  [w3 EXCEPT !.isFetchingOptimistic = FALSE]

\* --------------------------------------------------------------- Retryer
Paused(phase) == phase \in {"pausedInit", "pausedRetry"}

\* continueFn?.() as called by resolve/reject: the retryer is resolved, so
\* the pause promise resolves and the rest of the chain does nothing
ContinueFnResolved(w, r) ==
    IF Paused(w.retryers[r].phase)
    THEN [w EXCEPT !.retryers[r].phase = "finished"]
    ELSE w

RetryerResolve(w, r, value) ==
    IF ~w.retryers[r].isResolved
    THEN LET w1 == [w EXCEPT !.retryers[r].isResolved = TRUE]
             w2 == OnSuccess(w1, value)
             w3 == ContinueFnResolved(w2, r)
         IN  [w3 EXCEPT !.retryers[r].promise =
                 [settled |-> "resolved", value |-> value, error |-> NoError]]
    ELSE w

RetryerReject(w, r, value) ==
    IF ~w.retryers[r].isResolved
    THEN LET w1 == [w EXCEPT !.retryers[r].isResolved = TRUE]
             w2 == OnError(w1, value)
             w3 == ContinueFnResolved(w2, r)
         IN  [w3 EXCEPT !.retryers[r].promise =
                 [settled |-> "rejected", value |-> UNDEFINED, error |-> value]]
    ELSE w

\* mutation: cancel rejects but leaves the request running
RetryerCancelNoAbort(w, r, cancelOptions) ==
    IF ~w.retryers[r].isResolved
    THEN RetryerReject(w, r, CancelledError(cancelOptions))
    ELSE w

RetryerCancel(w, r, cancelOptions) ==
    IF ~w.retryers[r].isResolved
    THEN Emit([RetryerReject(w, r, CancelledError(cancelOptions))
                 EXCEPT !.retryers[r].aborted = TRUE], "abort")
    ELSE w

\* pause(): installs continueFn and calls config.onPause
Pause(w, r, phase) ==
    Dispatch([w EXCEPT !.retryers[r].phase = phase], [type |-> "pause"])

\* run(): one invocation of fetchFn, which clears abortSignalConsumed before
\* the fetcher runs; readsSignal says whether the fetcher reads context.signal
Run(w, r, readsSignal) ==
    IF w.retryers[r].isResolved
    THEN [w EXCEPT !.retryers[r].phase = "finished"]
    ELSE Emit([w EXCEPT !.retryers[r].phase = "inflight",
                        !.retryers[r].calls = @ + 1,
                        !.abortSignalConsumed = readsSignal], "fn")

\* mutation: the retry count is compared with <= instead of <
RunCatchOffByOne(w, r) ==
    IF w.retryers[r].isResolved
    THEN [w EXCEPT !.retryers[r].phase = "finished"]
    ELSE LET shouldRetry == w.retryers[r].failureCount <= options.retry IN
         IF w.retryers[r].isRetryCancelled \/ ~shouldRetry
         THEN [RetryerReject(w, r, TransportError) EXCEPT !.retryers[r].phase = "finished"]
         ELSE [w EXCEPT !.retryers[r].failureCount = @ + 1,
                        !.retryers[r].phase = "sleeping"]

\* mutation: a failure that will be retried is reported to the cache's onError
RunCatchSurfaces(w, r) ==
    IF w.retryers[r].isResolved
    THEN [w EXCEPT !.retryers[r].phase = "finished"]
    ELSE LET shouldRetry == w.retryers[r].failureCount < options.retry
             w1 == Emit(w, "cache.onError")
         IN  IF w.retryers[r].isRetryCancelled \/ ~shouldRetry
             THEN [RetryerReject(w, r, TransportError) EXCEPT !.retryers[r].phase = "finished"]
             ELSE [w1 EXCEPT !.retryers[r].failureCount = @ + 1,
                             !.retryers[r].phase = "sleeping"]

\* the catch handler of run(): the fetcher rejected
RunCatch(w, r) ==
    IF w.retryers[r].isResolved
    THEN [w EXCEPT !.retryers[r].phase = "finished"]
    ELSE LET shouldRetry == w.retryers[r].failureCount < options.retry IN
         IF w.retryers[r].isRetryCancelled \/ ~shouldRetry
         THEN [RetryerReject(w, r, TransportError) EXCEPT !.retryers[r].phase = "finished"]
         ELSE [w EXCEPT !.retryers[r].failureCount = @ + 1,
                        !.retryers[r].phase = "sleeping"]

\* mutation: the step after the delay does not consult isRetryCancelled
AfterDelayIgnoresFlag(w, r, readsSignal) ==
    Run(w, r, readsSignal)

\* the step after pause() resolved or the delay elapsed without pausing
AfterDelay(w, r, readsSignal) ==
    IF w.retryers[r].isRetryCancelled
    THEN [RetryerReject(w, r, TransportError) EXCEPT !.retryers[r].phase = "finished"]
    ELSE Run(w, r, readsSignal)

\* the chain after sleep(delay)
AfterSleep(w, r, readsSignal) ==
    IF shouldPause(w)
    THEN Pause(w, r, "pausedRetry")
    ELSE AfterDelay(w, r, readsSignal)

\* mutation: continueFn resolves the pause without asking shouldPause()
RetryerContinueAlways(w, r, readsSignal) ==
    IF Paused(w.retryers[r].phase)
    THEN LET w1 == IF ~w.retryers[r].isResolved
                   THEN Dispatch(w, [type |-> "continue"])
                   ELSE w
         IN  IF w.retryers[r].phase = "pausedInit"
             THEN Run(w1, r, readsSignal)
             ELSE AfterDelay(w1, r, readsSignal)
    ELSE w

\* retryer.continue(): continueFn of a paused retryer
RetryerContinue(w, r, readsSignal) ==
    IF Paused(w.retryers[r].phase) /\ (w.retryers[r].isResolved \/ ~shouldPause(w))
    THEN LET w1 == IF ~w.retryers[r].isResolved
                   THEN Dispatch(w, [type |-> "continue"])
                   ELSE w
         IN  IF w.retryers[r].phase = "pausedInit"
             THEN Run(w1, r, readsSignal)
             ELSE AfterDelay(w1, r, readsSignal)
    ELSE w

FreeSlots(w) == {r \in Slots : w.retryers[r].phase \in {"none", "finished"}}

\* createRetryer(): a fresh closure in a free slot, started or paused
CreateRetryer(w, readsSignal) ==
    LET r == CHOOSE x \in FreeSlots(w) : \A y \in FreeSlots(w) : x <= y
        w1 == [w EXCEPT !.retryers[r] = NoRetryer, !.retryer = r]
    IN  IF canFetch(w, options.networkMode)
        THEN Run(w1, r, readsSignal)
        ELSE Pause(w1, r, "pausedInit")

\* ------------------------------------------------------------- QueryInfo
CancelOp(w, cancelOptions) ==
    IF w.retryer # 0 THEN RetryerCancel(w, w.retryer, cancelOptions) ELSE w

Silent == [revert |-> FALSE, silent |-> TRUE]

\* mutation: the cancelRefetch test lost its negation
FetchReturnsPromiseOnRefetch(w, cancelRefetch) ==
    /\ w.state.fetchStatus # "idle"
    /\ w.state.dataUpdatedAt # 0 /\ cancelRefetch
    /\ w.retryer # 0

\* does fetch() return the promise it already has
FetchReturnsPromise(w, cancelRefetch) ==
    /\ w.state.fetchStatus # "idle"
    /\ ~(w.state.dataUpdatedAt # 0 /\ cancelRefetch)
    /\ w.retryer # 0

DispatchesFetch(w, meta) ==
    \/ w.state.fetchStatus = "idle"
    \/ w.state.fetchMeta # meta

\* mutation: the dedup branch calls retryer.continue() on a paused retryer
FetchOpResumes(w, cancelRefetch, meta, readsSignal) ==
    IF FetchReturnsPromise(w, cancelRefetch)
    THEN [RetryerContinue([w EXCEPT !.retryers[w.retryer].isRetryCancelled = FALSE],
                          w.retryer, readsSignal)
            EXCEPT !.returned = w.retryer]
    ELSE LET w1 == IF w.state.fetchStatus # "idle"
                      /\ w.state.dataUpdatedAt # 0 /\ cancelRefetch
                   THEN CancelOp(w, Silent)
                   ELSE w
             w2 == [w1 EXCEPT !.revertState = w1.state]
             w3 == IF DispatchesFetch(w2, meta)
                   THEN Dispatch(w2, [type |-> "fetch", meta |-> meta])
                   ELSE w2
             w4 == CreateRetryer(w3, readsSignal)
         IN  [w4 EXCEPT !.returned = w4.retryer]

FetchOp(w, cancelRefetch, meta, readsSignal) ==
    IF FetchReturnsPromise(w, cancelRefetch)
    THEN [w EXCEPT !.retryers[w.retryer].isRetryCancelled = FALSE,
                   !.returned = w.retryer]
    ELSE LET w1 == IF w.state.fetchStatus # "idle"
                      /\ w.state.dataUpdatedAt # 0 /\ cancelRefetch
                   THEN CancelOp(w, Silent)
                   ELSE w
             w2 == [w1 EXCEPT !.revertState = w1.state]
             w3 == IF DispatchesFetch(w2, meta)
                   THEN Dispatch(w2, [type |-> "fetch", meta |-> meta])
                   ELSE w2
             w4 == CreateRetryer(w3, readsSignal)
         IN  [w4 EXCEPT !.returned = w4.retryer]

\* fetch() can run within the bound on retryers
CanFetchOp(w, cancelRefetch) ==
    \/ FetchReturnsPromise(w, cancelRefetch)
    \/ FreeSlots(w) # {}

Destroy(w) == CancelOp(ClearGcTimeout(w), Silent)

ResetOp(w) == Dispatch(Destroy(w), [type |-> "setState", state |-> getDefaultState])

\* mutation: invalidate dispatches without looking at the flag
InvalidateAlways(w) == Dispatch(w, [type |-> "invalidate"])

InvalidateOp(w) ==
    IF ~w.state.isInvalidated THEN Dispatch(w, [type |-> "invalidate"]) ELSE w

\* mutation: the last unsubscribe cancels whether or not the signal was read
OnUnsubscribeAlwaysCancels(w, n) ==
    IF n = 0
    THEN LET w1 == IF w.retryer # 0
                   THEN RetryerCancel(w, w.retryer, [revert |-> TRUE, silent |-> FALSE])
                   ELSE w
         IN  ScheduleGc(w1)
    ELSE w

\* onUnsubscribe of the entry's listener set, hasListeners being n > 0
OnUnsubscribe(w, n) ==
    IF n = 0
    THEN LET w1 == IF w.retryer # 0
                   THEN IF w.abortSignalConsumed
                        THEN RetryerCancel(w, w.retryer, [revert |-> TRUE, silent |-> FALSE])
                        ELSE [w EXCEPT !.retryers[w.retryer].isRetryCancelled = TRUE]
                   ELSE w
         IN  ScheduleGc(w1)
    ELSE w

\* -------------------------------------------------------------- staleness
Max(a, b) == IF a >= b THEN a ELSE b

\* mutation: the time of the last update is left out of the sum
timeUntilStaleFromZero(updatedAt, staleTime) ==
    Max(staleTime - now, 0)

timeUntilStale(updatedAt, staleTime) ==
    Max(updatedAt + staleTime - now, 0)

isStaleByTime(w, staleTime) ==
    \/ w.state.isInvalidated
    \/ w.state.dataUpdatedAt = 0
    \/ timeUntilStale(w.state.dataUpdatedAt, staleTime) = 0

\* ------------------------------------------------------------ QueryCache
CacheRemove(w) ==
    IF w.queries
    THEN Emit([Destroy(w) EXCEPT !.queries = FALSE], "removed")
    ELSE w

\* mutation: the GC timer removes an entry that is fetching
OnRemoveWhileFetching(w, n) ==
    IF n = 0 THEN CacheRemove(w) ELSE w

\* mutation: the GC timer removes an entry that has observers
OnRemoveWithListeners(w, n) ==
    IF w.state.fetchStatus = "idle" THEN CacheRemove(w) ELSE w

\* onRemove of the entry's GC manager
OnRemove(w, n) ==
    IF n = 0 /\ w.state.fetchStatus = "idle" THEN CacheRemove(w) ELSE w

\* build() on a miss: a new entry of the hash, registered and announced
BuildOp(w) ==
    [w EXCEPT !.state = getDefaultState,
              !.revertState = NoRevertState,
              !.retryers = [r \in Slots |-> NoRetryer],
              !.retryer = 0,
              !.abortSignalConsumed = FALSE,
              !.isFetchingOptimistic = FALSE,
              !.gcTimeout = isValidTimeout(options.gcTime),
              !.queries = TRUE,
              !.log = Append(@, "added")]

\* ----------------------------------------------------------- QueryClient
\* mutation: fetchQuery fetches whatever the age of the data
FetchQueryAlways(w, staleTime, readsSignal) ==
    FetchOp(IF w.queries THEN w ELSE BuildOp(w), FALSE, UNDEFINED, readsSignal)

\* queryInfo.isActive() and isDisabled(), n listeners of which d are disabled
isActive(n, d) == n > d

isDisabled(n, d) == n > 0 /\ ~isActive(n, d)

\* the type test of matchQueryInfo, the key of the filters matching the entry
matchQueryInfo(type, n, d) ==
    LET t == IF type = UNDEFINED THEN "all" ELSE type IN
    \/ t = "all"
    \/ t = "active" /\ isActive(n, d)
    \/ t = "inactive" /\ ~isActive(n, d)

\* the type refetchQueries is handed by invalidateQueries
RefetchFilterType(type, refetchType) ==
    IF refetchType # UNDEFINED THEN refetchType
    ELSE IF type # UNDEFINED THEN type ELSE "active"

\* does invalidateQueries call fetch() on the entry
Refetches(type, refetchType, n, d) ==
    /\ refetchType # "none"
    /\ matchQueryInfo(RefetchFilterType(type, refetchType), n, d)
    /\ ~isDisabled(n, d)

\* mutation: refetchQueries does not skip disabled entries
InvalidateQueriesAlsoDisabled(w, n, d, type, refetchType, readsSignal) ==
    LET w1 == IF matchQueryInfo(type, n, d) THEN InvalidateOp(w) ELSE w IN
    IF refetchType # "none"
       /\ matchQueryInfo(RefetchFilterType(type, refetchType), n, d)
    THEN FetchOp(w1, TRUE, UNDEFINED, readsSignal)
    ELSE w1

\* client.invalidateQueries(filters): invalidate the matches, then
\* refetchQueries with cancelRefetch defaulting to true
InvalidateQueriesOp(w, n, d, type, refetchType, readsSignal) ==
    LET w1 == IF matchQueryInfo(type, n, d) THEN InvalidateOp(w) ELSE w IN
    IF Refetches(type, refetchType, n, d)
    THEN FetchOp(w1, TRUE, UNDEFINED, readsSignal)
    ELSE w1

\* client.fetchQuery(options): build, then fetch if stale by time
FetchQueryOp(w, staleTime, readsSignal) ==
    LET w1 == IF w.queries THEN w ELSE BuildOp(w) IN
    IF isStaleByTime(w1, staleTime)
    THEN FetchOp(w1, FALSE, UNDEFINED, readsSignal)
    ELSE [w1 EXCEPT !.returned = ResolvedWithData]

\* ------------------------------------------------------------------ Init
\* The entry as createQueryInfo leaves it (no initialData), registered by
\* build().  The fetcher is the caller's: readsSignal holds the ways it treats
\* context.signal, results the values its promise resolves with.
\* the state after construction, given the options of the entry and the
\* infinite queries there may be
InitOf(Options, Infinites, Keys) ==
    /\ options \in Options
    /\ now = 1
    /\ state = getDefaultState
    /\ revertState = NoRevertState
    /\ retryers = [r \in Slots |-> NoRetryer]
    /\ retryer = 0
    /\ abortSignalConsumed = FALSE
    /\ isFetchingOptimistic = FALSE
    /\ listeners = 0
    /\ disabled = 0
    /\ gcTimeout = isValidTimeout(options.gcTime)
    /\ queries = TRUE
    /\ online = TRUE
    /\ focused = TRUE
    /\ registry = [queries |-> [h \in Hashes |-> 0], info |-> [e \in Entries |-> NoEntry]]
    /\ mutationCache = [m \in Mutations |-> NoMutation]
    /\ observer = NoObserver
    /\ log = <<>>
    /\ returned = 0
    /\ observableQueries = NoObservableQueries
    /\ infinite \in Infinites
    /\ hydration = NoHydration
    /\ keys \in Keys
    /\ notifications = <<>>
    /\ mutationInfo = NoMutationInfo

InitWith(Options) == InitOf(Options, {NoInfinite}, {NoKeys})

env == <<options, online, focused, now, registry, mutationCache, observer, rest>>

\* --------------------------------------------------------------- actions
\* queryInfo.fetch(options, fetchOptions)
Fetch ==
    /\ queries
    /\ \E cancelRefetch \in BOOLEAN, meta \in Metas, readsSignal \in options.readsSignal :
          /\ CanFetchOp(World, cancelRefetch)
          /\ Commit(FetchOp(World, cancelRefetch, meta, readsSignal))
    /\ UNCHANGED <<listeners, disabled, env>>

\* obsQuery.fetchOptimistic(): setIsFetchingOptimistic(true), then fetch()
FetchOptimistic ==
    /\ queries
    /\ \E readsSignal \in options.readsSignal :
          /\ CanFetchOp(World, FALSE)
          /\ Commit(FetchOp([World EXCEPT !.isFetchingOptimistic = TRUE],
                            FALSE, UNDEFINED, readsSignal))
    /\ UNCHANGED <<listeners, disabled, env>>

\* queryInfo.cancel(cancelOptions)
Cancel ==
    /\ queries
    /\ \E revert \in BOOLEAN, silent \in BOOLEAN :
          Commit(CancelOp(World, [revert |-> revert, silent |-> silent]))
    /\ UNCHANGED <<listeners, disabled, env>>

\* client.cancelQueries() with its default options: cancel({revert: true})
CancelQueries ==
    /\ queries
    /\ Commit(CancelOp(World, [revert |-> TRUE, silent |-> FALSE]))
    /\ UNCHANGED <<listeners, disabled, env>>

\* queryInfo.setData(updater, options), as called by setQueryData
SetData ==
    /\ queries
    /\ \E updatedAt \in {NoUpdatedAt, now} :
          Commit(SetDataOp(World, ManualData, updatedAt, TRUE))
    /\ UNCHANGED <<listeners, disabled, env>>

\* queryInfo.setData(updater, { updatedAt }) with what the caller passes
SetDataWith ==
    /\ queries
    /\ \E newData \in {ManualData, UNDEFINED}, updatedAt \in {NoUpdatedAt, 0, now} :
          Commit(Emit(SetDataOp(World, newData, updatedAt, TRUE), "setData"))
    /\ UNCHANGED <<listeners, disabled, env>>

\* client.setQueryData(filters, updater, setDataOptions): nothing is done
\* when the updater yields undefined
SetQueryData ==
    /\ queries
    /\ \E newData \in {ManualData, UNDEFINED}, updatedAt \in {NoUpdatedAt, 0, now} :
          IF newData = UNDEFINED
          THEN Commit(Emit(World, "setQueryData"))
          ELSE Commit(Emit(SetDataOp(World, newData, updatedAt, TRUE), "setQueryData"))
    /\ UNCHANGED <<listeners, disabled, env>>

Invalidate ==
    /\ queries
    /\ Commit(InvalidateOp(World))
    /\ UNCHANGED <<listeners, disabled, env>>

Reset ==
    /\ queries
    /\ Commit(ResetOp(World))
    /\ UNCHANGED <<listeners, disabled, env>>

\* queryInfo.subscribe(observer)
Subscribe ==
    /\ queries
    /\ listeners < MaxListeners
    /\ listeners' = listeners + 1
    /\ Commit(ClearGcTimeout(World))
    /\ UNCHANGED <<disabled, env>>

\* the unsubscribe function returned by queryInfo.subscribe
Unsubscribe ==
    /\ queries
    /\ listeners > disabled
    /\ listeners' = listeners - 1
    /\ Commit(OnUnsubscribe(World, listeners - 1))
    /\ UNCHANGED <<disabled, env>>

\* the body of the GC timer: the timer is spent, then onRemove
GcFireOp == OnRemove(Emit([World EXCEPT !.gcTimeout = FALSE], "gcTimeout"), listeners)

\* the GC timer fires
GcFire ==
    /\ gcTimeout
    /\ Commit(GcFireOp)
    /\ UNCHANGED <<listeners, disabled, env>>

\* queryCache.remove(queryInfo), as called by removeQueries and clear
Remove ==
    /\ queries
    /\ Commit(CacheRemove(World))
    /\ UNCHANGED <<listeners, disabled, env>>

\* queryCache.build() after the entry was removed: a new entry of the hash
Build ==
    /\ ~queries
    /\ Commit(BuildOp(World))
    /\ listeners' = 0
    /\ disabled' = 0
    /\ UNCHANGED env

\* client.fetchQuery(options)
FetchQuery ==
    /\ \E staleTime \in StaleTimes, readsSignal \in options.readsSignal :
          /\ CanFetchOp(IF queries THEN World ELSE BuildOp(World), FALSE)
          /\ Commit(FetchQueryOp(World, staleTime, readsSignal))
    /\ listeners' = IF queries THEN listeners ELSE 0
    /\ disabled' = IF queries THEN disabled ELSE 0
    /\ UNCHANGED env

\* client.invalidateQueries(filters)
InvalidateQueries ==
    /\ queries
    /\ \E type \in TypeFilters, refetchType \in RefetchTypes,
          readsSignal \in options.readsSignal :
          /\ Refetches(type, refetchType, listeners, disabled) => CanFetchOp(World, TRUE)
          /\ Commit(InvalidateQueriesOp(World, listeners, disabled, type,
                                        refetchType, readsSignal))
    /\ UNCHANGED <<listeners, disabled, env>>

\* an observer with enabled = false subscribes
SubscribeDisabled ==
    /\ queries
    /\ listeners < MaxListeners
    /\ listeners' = listeners + 1
    /\ disabled' = disabled + 1
    /\ Commit(ClearGcTimeout(World))
    /\ UNCHANGED env

\* an observer with enabled = false unsubscribes
UnsubscribeDisabled ==
    /\ queries
    /\ disabled > 0
    /\ listeners' = listeners - 1
    /\ disabled' = disabled - 1
    /\ Commit(OnUnsubscribe(World, listeners - 1))
    /\ UNCHANGED env

\* time passes
Tick ==
    /\ now < MaxNow
    /\ now' = now + 1
    /\ Commit(World)
    /\ UNCHANGED <<listeners, disabled, options, online, focused, registry,
                   mutationCache, observer, rest>>

\* the fetcher's promise of an in-flight attempt resolves
AttemptResolve ==
    /\ \E r \in Slots, value \in options.results :
          /\ retryers[r].phase = "inflight"
          /\ Commit([RetryerResolve(World, r, value) EXCEPT !.retryers[r].phase = "finished"])
    /\ UNCHANGED <<listeners, disabled, env>>

\* the fetcher's promise of an in-flight attempt rejects
AttemptReject ==
    /\ \E r \in Slots :
          /\ retryers[r].phase = "inflight"
          /\ Commit(RunCatch(World, r))
    /\ UNCHANGED <<listeners, disabled, env>>

\* the retry delay of a retryer elapses
SleepDone ==
    /\ \E r \in Slots, readsSignal \in options.readsSignal :
          /\ retryers[r].phase = "sleeping"
          /\ Commit(AfterSleep(World, r, readsSignal))
    /\ UNCHANGED <<listeners, disabled, env>>

\* queryInfo.onOnline() / onFocus(): an observer may refetch, then the
\* current retryer is continued
\* (the world after the refetch is evaluated once, as a bound value)
OnOnlineOrFocus(w, refetch, readsSignal) ==
    CHOOSE after \in
        {IF w1.retryer # 0 THEN RetryerContinue(w1, w1.retryer, readsSignal) ELSE w1 :
            w1 \in {IF refetch THEN FetchOp(w, FALSE, UNDEFINED, readsSignal) ELSE w}} :
        TRUE

\* onlineManager.setOnline(isOnline), the client being mounted
SetOnline ==
    /\ online' = ~online
    /\ IF online' /\ queries
       THEN \E refetch \in BOOLEAN, readsSignal \in options.readsSignal,
               w \in {[World EXCEPT !.online = TRUE]} :
               /\ refetch => listeners > disabled /\ CanFetchOp(World, FALSE)
               /\ Commit(OnOnlineOrFocus(w, refetch, readsSignal))
       ELSE Commit(World)
    /\ UNCHANGED <<listeners, disabled, options, focused, now, registry,
                   mutationCache, observer, rest>>

\* focusManager.setFocused(isFocused), the client being mounted
SetFocused ==
    /\ focused' = ~focused
    /\ IF focused' /\ queries
       THEN \E refetch \in BOOLEAN, readsSignal \in options.readsSignal,
               w \in {[World EXCEPT !.focused = TRUE]} :
               /\ refetch => listeners > disabled /\ CanFetchOp(World, FALSE)
               /\ Commit(OnOnlineOrFocus(w, refetch, readsSignal))
       ELSE Commit(World)
    /\ UNCHANGED <<listeners, disabled, options, online, now, registry,
                   mutationCache, observer, rest>>

\* onlineManager.setOnline / focusManager.setFocused while no client is
\* mounted: the managers have no listener, no entry hears of it
SetOnlineUnmounted ==
    /\ online' = ~online
    /\ Commit(World)
    /\ UNCHANGED <<listeners, disabled, options, focused, now, registry,
                   mutationCache, observer, rest>>

SetFocusedUnmounted ==
    /\ focused' = ~focused
    /\ Commit(World)
    /\ UNCHANGED <<listeners, disabled, options, online, now, registry,
                   mutationCache, observer, rest>>

\* ------------------------------------------- the QueryCache as a registry
\* The entries of this view never fetch: each is idle, with its observers,
\* its GC timer and the events the cache broadcast about it.
qinfo == <<state, revertState, retryers, retryer, abortSignalConsumed,
           isFetchingOptimistic, listeners, disabled, gcTimeout, options,
           queries, online, focused, now, log, returned>>

Created(c) == {e \in Entries : c.info[e].queryHash # NULL}

Registered(c) == {e \in Entries : \E h \in Hashes : c.queries[h] = e}

\* mutation: build creates without looking the hash up
QueryCacheBuildNoLookup(c, queryHash) ==
    LET e == CHOOSE x \in Entries \ Created(c) : \A y \in Entries \ Created(c) : x <= y
    IN  [c EXCEPT !.queries[queryHash] = e,
                  !.info[e] = [NoEntry EXCEPT !.queryHash = queryHash,
                                              !.gcTimeout = TRUE,
                                              !.added = 1]]

\* build(): get(queryHash), and on a miss createQueryInfo (which arms the GC
\* timer), queries.set and notify added
QueryCacheBuild(c, queryHash) ==
    IF c.queries[queryHash] # 0
    THEN c
    ELSE LET e == CHOOSE x \in Entries \ Created(c) : \A y \in Entries \ Created(c) : x <= y
         IN  [c EXCEPT !.queries[queryHash] = e,
                       !.info[e] = [NoEntry EXCEPT !.queryHash = queryHash,
                                                   !.gcTimeout = TRUE,
                                                   !.added = 1]]

\* the entry build() returns
QueryCacheGet(c, queryHash) == c.queries[queryHash]

\* remove(queryInfo): the entry found under the hash is destroyed, deleted
\* if it is the argument, and removed is broadcast for the argument
QueryCacheRemove(c, e) ==
    LET h == c.info[e].queryHash
        queryInfoInMap == c.queries[h]
    IN  IF queryInfoInMap # 0
        THEN [c EXCEPT !.info[queryInfoInMap].gcTimeout = FALSE,
                       !.queries[h] = IF queryInfoInMap = e THEN 0 ELSE @,
                       !.info[e].removed = @ + 1]
        ELSE c

RECURSIVE QueryCacheRemoveAll(_, _)
QueryCacheRemoveAll(c, all) ==
    IF all = {}
    THEN c
    ELSE LET e == CHOOSE x \in all : \A y \in all : x <= y
         IN  QueryCacheRemoveAll(QueryCacheRemove(c, e), all \ {e})

\* clear(): getAll().forEach(remove)
QueryCacheClear(c) == QueryCacheRemoveAll(c, Registered(c))

\* the GC timer of an idle entry fires
EntryOnRemove(c, e) ==
    LET c1 == [c EXCEPT !.info[e].gcTimeout = FALSE] IN
    IF c1.info[e].observers = 0 THEN QueryCacheRemove(c1, e) ELSE c1

RegistryBuild ==
    /\ \E h \in Hashes :
          /\ registry.queries[h] = 0 => Created(registry) # Entries
          /\ registry' = QueryCacheBuild(registry, h)
    /\ UNCHANGED <<qinfo, mutationCache, observer, rest>>

\* queryCache.remove(queryInfo) with an entry the caller holds
RegistryRemove ==
    /\ \E e \in Created(registry) :
          /\ registry.info[e].removed < MaxRemoved
          /\ registry' = QueryCacheRemove(registry, e)
    /\ UNCHANGED <<qinfo, mutationCache, observer, rest>>

RegistryClear ==
    /\ registry' = QueryCacheClear(registry)
    /\ UNCHANGED <<qinfo, mutationCache, observer, rest>>

RegistryGcFire ==
    /\ \E e \in Created(registry) :
          /\ registry.info[e].gcTimeout
          /\ registry.info[e].removed < MaxRemoved
          /\ registry' = EntryOnRemove(registry, e)
    /\ UNCHANGED <<qinfo, mutationCache, observer, rest>>

\* an observer subscribes to an entry it holds
RegistrySubscribe ==
    /\ \E e \in Created(registry) :
          /\ registry.info[e].observers = 0
          /\ registry' = [registry EXCEPT !.info[e].observers = 1,
                                          !.info[e].gcTimeout = FALSE]
    /\ UNCHANGED <<qinfo, mutationCache, observer, rest>>

\* the observer unsubscribes: scheduleGc
RegistryUnsubscribe ==
    /\ \E e \in Created(registry) :
          /\ registry.info[e].observers = 1
          /\ registry' = [registry EXCEPT !.info[e].observers = 0,
                                          !.info[e].gcTimeout = TRUE]
    /\ UNCHANGED <<qinfo, mutationCache, observer, rest>>

\* ------------------------------------------------------ the MutationCache
\* getDefaultState() and the reducer of dispatch(): listeners and the cache
\* are notified of every action
MutationDispatch(c, m, action) ==
    [c EXCEPT ![m].state =
                  CASE action.type = "mutating" ->
                           [status |-> "mutating", data |-> UNDEFINED, error |-> NULL]
                    [] action.type = "success" ->
                           [status |-> "success", data |-> action.data, error |-> NULL]
                    [] action.type = "error" ->
                           [status |-> "error", data |-> UNDEFINED, error |-> action.error],
              ![m].events = Append(@, "dispatch:" \o action.type)]

\* build(): createMutationInfo (which arms the GC timer), push, notify added
MutationCacheBuild(c) ==
    LET m == CHOOSE x \in Mutations : ~c[x].created /\ \A y \in Mutations : ~c[y].created => x <= y
    IN  [c EXCEPT ![m] = [NoMutation EXCEPT !.created = TRUE,
                                            !.registered = TRUE,
                                            !.gcTimeout = TRUE]]

\* remove(mutationInfo): filter, then notify removed
MutationCacheRemove(c, m) ==
    [c EXCEPT ![m].registered = FALSE, ![m].removed = @ + 1]

\* clear(): notify removed for every mutation, then mutations = []
MutationCacheClear(c) ==
    [m \in Mutations |->
        IF c[m].registered
        THEN [c[m] EXCEPT !.registered = FALSE, !.removed = @ + 1]
        ELSE c[m]]

\* mutation: the GC timer removes whatever the status
MutationOnRemoveWhileMutating(c, m) ==
    LET c1 == [c EXCEPT ![m].gcTimeout = FALSE] IN
    IF c1[m].listeners = 0
    THEN MutationCacheRemove([c1 EXCEPT ![m].gcOutcomes = @ \cup {"removed"}], m)
    ELSE [c1 EXCEPT ![m].gcOutcomes = @ \cup {"kept"}]

\* the GC timer fires: onRemove
\* (gcOutcomes remembers what the timer's firings did)
MutationOnRemove(c, m) ==
    LET c1 == [c EXCEPT ![m].gcTimeout = FALSE] IN
    IF c1[m].listeners = 0
    THEN IF c1[m].state.status = "mutating"
         THEN [c1 EXCEPT ![m].gcTimeout = TRUE, ![m].gcOutcomes = @ \cup {"rearmed"}]
         ELSE MutationCacheRemove([c1 EXCEPT ![m].gcOutcomes = @ \cup {"removed"}], m)
    ELSE [c1 EXCEPT ![m].gcOutcomes = @ \cup {"kept"}]

\* onSubscribe: clearGcTimeout
MutationOnSubscribe(c, m) ==
    [c EXCEPT ![m].listeners = @ + 1, ![m].gcTimeout = FALSE]

\* onUnsubscribe: scheduleGc
MutationOnUnsubscribe(c, m) ==
    [c EXCEPT ![m].listeners = @ - 1, ![m].gcTimeout = TRUE]

\* the callbacks of the path trigger() is on
Callbacks(path) == IF path = "success" THEN SuccessCallbacks ELSE ErrorCallbacks

\* a callback is called and its promise awaited
StartCallback(c, m, i) ==
    [c EXCEPT ![m].pc = "callback",
              ![m].callback = i,
              ![m].events = Append(@, "start:" \o Callbacks(c[m].path)[i])]

\* trigger(): dispatch mutating unless restored, executeMutation
MutationTrigger(c, m) ==
    LET restored == c[m].state.status = "mutating"
        c1 == IF restored THEN c ELSE MutationDispatch(c, m, [type |-> "mutating"])
    IN  [c1 EXCEPT ![m].pc = "fetcher", ![m].events = Append(@, "fetcher")]

\* mutation: the success action is dispatched before the callbacks run
MutationFetcherResolvedDispatchesFirst(c, m) ==
    StartCallback(MutationDispatch([c EXCEPT ![m].path = "success"], m,
                                   [type |-> "success", data |-> MutationData]), m, 1)

\* await executeMutation() resolves: the success callbacks start
MutationFetcherResolved(c, m) ==
    StartCallback([c EXCEPT ![m].path = "success"], m, 1)

\* await executeMutation() rejects (retry is 0): catch, the error callbacks
\* start
MutationFetcherRejected(c, m) ==
    StartCallback([c EXCEPT ![m].path = "error",
                            ![m].caught = MutationError,
                            ![m].fetcherFailed = TRUE], m, 1)

\* the end of the try block: dispatch success, return data
MutationSucceed(c, m) ==
    LET c1 == MutationDispatch(c, m, [type |-> "success", data |-> MutationData])
    IN  [c1 EXCEPT ![m].pc = "settled",
                   ![m].promise = [settled |-> "resolved", value |-> MutationData],
                   ![m].events = Append(@, "resolve")]

\* mutation: an error thrown inside the catch block skips the dispatch
MutationFailNoFinally(c, m, thrown) ==
    LET c1 == IF thrown = c[m].caught
              THEN MutationDispatch(c, m, [type |-> "error", error |-> c[m].caught])
              ELSE c
    IN  [c1 EXCEPT ![m].pc = "settled",
                   ![m].promise = [settled |-> "rejected", value |-> thrown],
                   ![m].events = Append(@, "reject")]

\* leaving the catch block with `thrown`: finally dispatches error with the
\* error that was caught, then the promise rejects with what was thrown
MutationFail(c, m, thrown) ==
    LET c1 == MutationDispatch(c, m, [type |-> "error", error |-> c[m].caught])
    IN  [c1 EXCEPT ![m].pc = "settled",
                   ![m].promise = [settled |-> "rejected", value |-> thrown],
                   ![m].events = Append(@, "reject")]

\* the awaited callback returns: the next one is called, or the path ends
MutationCallbackReturned(c, m) ==
    LET i == c[m].callback
        c1 == [c EXCEPT ![m].events = Append(@, "end:" \o Callbacks(c[m].path)[i])]
    IN  IF i < Len(Callbacks(c[m].path))
        THEN StartCallback(c1, m, i + 1)
        ELSE IF c[m].path = "success"
             THEN MutationSucceed(c1, m)
             ELSE MutationFail(c1, m, c1[m].caught)

\* the awaited callback throws: on the success path the catch block takes
\* over with the callback's error, inside the catch block it is left
MutationCallbackThrew(c, m) ==
    LET i == c[m].callback
        c1 == [c EXCEPT ![m].events = Append(@, "throw:" \o Callbacks(c[m].path)[i]),
                        ![m].threw = TRUE]
    IN  IF c[m].path = "success"
        THEN StartCallback([c1 EXCEPT ![m].path = "error",
                                      ![m].caught = CallbackError], m, 1)
        ELSE MutationFail(c1, m, CallbackError)

\* mutationCache.build(client, options)
MutationBuild ==
    /\ \E m \in Mutations : ~mutationCache[m].created
    /\ mutationCache' = MutationCacheBuild(mutationCache)
    /\ UNCHANGED <<qinfo, registry, observer, rest>>

\* client.triggerMutation(options): build(...).trigger(variables)
TriggerMutation ==
    /\ \E m \in Mutations : ~mutationCache[m].created
    /\ LET c == MutationCacheBuild(mutationCache)
           m == CHOOSE x \in Mutations : c[x].created /\ ~mutationCache[x].created
       IN  mutationCache' = MutationTrigger(c, m)
    /\ UNCHANGED <<qinfo, registry, observer, rest>>

MutationFetcherResolve ==
    /\ \E m \in Mutations :
          /\ mutationCache[m].pc = "fetcher"
          /\ mutationCache' = MutationFetcherResolved(mutationCache, m)
    /\ UNCHANGED <<qinfo, registry, observer, rest>>

MutationFetcherReject ==
    /\ \E m \in Mutations :
          /\ mutationCache[m].pc = "fetcher"
          /\ mutationCache' = MutationFetcherRejected(mutationCache, m)
    /\ UNCHANGED <<qinfo, registry, observer, rest>>

MutationCallbackReturn ==
    /\ \E m \in Mutations :
          /\ mutationCache[m].pc = "callback"
          /\ mutationCache' = MutationCallbackReturned(mutationCache, m)
    /\ UNCHANGED <<qinfo, registry, observer, rest>>

MutationCallbackThrow ==
    /\ \E m \in Mutations :
          /\ mutationCache[m].pc = "callback"
          /\ mutationCache' = MutationCallbackThrew(mutationCache, m)
    /\ UNCHANGED <<qinfo, registry, observer, rest>>

MutationSubscribe ==
    /\ \E m \in Mutations :
          /\ mutationCache[m].created
          /\ mutationCache[m].listeners < MaxListeners
          /\ mutationCache' = MutationOnSubscribe(mutationCache, m)
    /\ UNCHANGED <<qinfo, registry, observer, rest>>

MutationUnsubscribe ==
    /\ \E m \in Mutations :
          /\ mutationCache[m].listeners > 0
          /\ mutationCache' = MutationOnUnsubscribe(mutationCache, m)
    /\ UNCHANGED <<qinfo, registry, observer, rest>>

MutationGcFire ==
    /\ \E m \in Mutations :
          /\ mutationCache[m].gcTimeout
          /\ mutationCache[m].removed < MaxRemoved
          /\ mutationCache' = MutationOnRemove(mutationCache, m)
    /\ UNCHANGED <<qinfo, registry, observer, rest>>

\* mutationCache.remove(mutationInfo) with a mutation the caller holds
MutationRemove ==
    /\ \E m \in Mutations :
          /\ mutationCache[m].created
          /\ mutationCache[m].removed < MaxRemoved
          /\ mutationCache' = MutationCacheRemove(mutationCache, m)
    /\ UNCHANGED <<qinfo, registry, observer, rest>>

MutationClear ==
    /\ mutationCache' = MutationCacheClear(mutationCache)
    /\ UNCHANGED <<qinfo, registry, observer, rest>>

\* ------------------------------------- a MutationInfo triggered again
\* One MutationInfo with one subscribed listener.  Every trigger() call is an
\* async function of its own: its variables, its retryer, where it stands
\* (pc), what it caught and its promise.  `dispatched`, `notified` and `from`
\* describe the last step: the actions dispatched, the listener's calls and
\* the status the dispatch found.
InfoStart(mi) == [mi EXCEPT !.dispatched = <<>>, !.notified = 0, !.from = "none"]

\* dispatch(action): the reducer, then the listeners, then the cache
InfoDispatch(mi, action) ==
    [mi EXCEPT !.state =
                  CASE action.type = "mutating" ->
                           [mi.state EXCEPT !.data = UNDEFINED, !.error = NULL,
                                            !.status = "mutating",
                                            !.variables = action.variables]
                    [] action.type = "success" ->
                           [mi.state EXCEPT !.data = action.data, !.error = NULL,
                                            !.status = "success"]
                    [] action.type = "error" ->
                           [mi.state EXCEPT !.data = UNDEFINED, !.error = action.error,
                                            !.status = "error"],
               !.dispatched = Append(@, action.type),
               !.notified = @ + 1,
               !.from = mi.state.status]

\* executeMutation(): createRetryer, which calls the mutation function when
\* canFetch(networkMode) and pauses otherwise (no onPause is configured)
InfoExecuteMutation(mi, t, isOnline) ==
    IF mi.networkMode = "online" /\ ~isOnline
    THEN [mi EXCEPT !.triggers[t].pc = "paused", !.triggers[t].offline = TRUE]
    ELSE [mi EXCEPT !.triggers[t].pc = "fetcher", !.triggers[t].calls = @ + 1]

\* mutation: trigger() dispatches 'mutating' whatever the status
InfoTriggerAlwaysDispatches(mi, t, variables, isOnline) ==
    LET mi1 == [mi EXCEPT !.triggers[t] = [NoTrigger EXCEPT !.variables = variables]]
    IN  InfoExecuteMutation(
            InfoDispatch(mi1, [type |-> "mutating", variables |-> variables]),
            t, isOnline)

\* trigger(variables): dispatch 'mutating' unless restored, executeMutation()
InfoTrigger(mi, t, variables, isOnline) ==
    LET restored == mi.state.status = "mutating"
        mi1 == [mi EXCEPT !.triggers[t] = [NoTrigger EXCEPT !.variables = variables]]
        mi2 == IF ~restored
               THEN InfoDispatch(mi1, [type |-> "mutating", variables |-> variables])
               ELSE mi1
    IN  InfoExecuteMutation(mi2, t, isOnline)

\* what the mutation function resolves with for these variables
MutationResult(variables) == "data:" \o variables

\* await executeMutation() resolves: the success callbacks are awaited
InfoFetcherResolved(mi, t) ==
    [mi EXCEPT !.triggers[t].pc = "onSuccess",
               !.triggers[t].data = MutationResult(mi.triggers[t].variables)]

\* await executeMutation() rejects (retry is 0): the error callbacks are
\* awaited
InfoFetcherRejected(mi, t) ==
    [mi EXCEPT !.triggers[t].pc = "onError", !.triggers[t].caught = MutationError]

\* the end of the catch block: finally dispatches 'error' with the error
\* that was caught, the promise rejects
InfoFail(mi, t) ==
    LET mi1 == InfoDispatch(mi, [type |-> "error", error |-> mi.triggers[t].caught])
    IN  [mi1 EXCEPT !.triggers[t].pc = "settled", !.triggers[t].promise = "rejected"]

\* the awaited callbacks have returned: dispatch 'success' and return the
\* data, or leave the catch block
InfoCallbacksReturned(mi, t) ==
    IF mi.triggers[t].pc = "onSuccess"
    THEN LET mi1 == InfoDispatch(mi, [type |-> "success", data |-> mi.triggers[t].data])
         IN  [mi1 EXCEPT !.triggers[t].pc = "settled", !.triggers[t].promise = "resolved"]
    ELSE InfoFail(mi, t)

\* an awaited callback throws: in the try block the catch block takes over
\* with the callback's error, in the catch block it is left
InfoCallbackThrew(mi, t) ==
    IF mi.triggers[t].pc = "onSuccess"
    THEN [mi EXCEPT !.triggers[t].pc = "onError", !.triggers[t].caught = CallbackError]
    ELSE InfoFail(mi, t)

\* mutationCache.build(client, options) and a listener's subscribe()
InfoBuild ==
    /\ ~mutationInfo.created
    /\ \E networkMode \in {"online", "always"} :
          mutationInfo' = [InfoStart(mutationInfo) EXCEPT !.created = TRUE,
                                                        !.networkMode = networkMode]
    /\ UNCHANGED <<qinfo, registry, mutationCache, observer, observableQueries,
                   infinite, hydration, keys, notifications>>

\* mutationInfo.trigger(variables)
InfoTriggered ==
    /\ mutationInfo.created
    /\ \E t \in Triggers, variables \in MutationVariables :
          /\ mutationInfo.triggers[t].pc = "none"
          /\ \A u \in Triggers : u < t => mutationInfo.triggers[u].pc # "none"
          /\ mutationInfo' = InfoTrigger(InfoStart(mutationInfo), t, variables, online)
    /\ UNCHANGED <<qinfo, registry, mutationCache, observer, observableQueries,
                   infinite, hydration, keys, notifications>>

InfoFetcherResolve ==
    /\ \E t \in Triggers :
          /\ mutationInfo.triggers[t].pc = "fetcher"
          /\ mutationInfo' = InfoFetcherResolved(InfoStart(mutationInfo), t)
    /\ UNCHANGED <<qinfo, registry, mutationCache, observer, observableQueries,
                   infinite, hydration, keys, notifications>>

InfoFetcherReject ==
    /\ \E t \in Triggers :
          /\ mutationInfo.triggers[t].pc = "fetcher"
          /\ mutationInfo' = InfoFetcherRejected(InfoStart(mutationInfo), t)
    /\ UNCHANGED <<qinfo, registry, mutationCache, observer, observableQueries,
                   infinite, hydration, keys, notifications>>

InfoCallbacksReturn ==
    /\ \E t \in Triggers :
          /\ mutationInfo.triggers[t].pc \in {"onSuccess", "onError"}
          /\ mutationInfo' = InfoCallbacksReturned(InfoStart(mutationInfo), t)
    /\ UNCHANGED <<qinfo, registry, mutationCache, observer, observableQueries,
                   infinite, hydration, keys, notifications>>

InfoCallbackThrow ==
    /\ \E t \in Triggers :
          /\ mutationInfo.triggers[t].pc \in {"onSuccess", "onError"}
          /\ mutationInfo' = InfoCallbackThrew(InfoStart(mutationInfo), t)
    /\ UNCHANGED <<qinfo, registry, mutationCache, observer, observableQueries,
                   infinite, hydration, keys, notifications>>

\* ---------------------------------------------------- the ObservableQuery
\* An observer of one idle entry with staleTime 0 and no placeholder data:
\* of the entry's state only the reference of state.data varies.  Data
\* references are numbers, 0 being undefined.
SelectError == "SelectError"           \* what the throwing selector throws

\* the selector functions: "count" and "length" map every data to the same
\* value, "wrap" maps different data to different values, "throws" throws
SelectFn(select, data) == IF select \in {"count", "length"} THEN 7 ELSE 10 + data

\* replaceData(): structural sharing keeps the previous reference when the
\* new value is deep-equal to it
replaceData(prevData, data) == IF prevData = data THEN prevData ELSE data

\* shallowEqualObjects(nextResult, prevResult)
shallowEqualObjects(a, b) ==
    /\ a.defined = b.defined
    /\ a.data = b.data
    /\ a.error = b.error
    /\ a.isLoading = b.isLoading

\* mutation: a selector error clears the data of the result
ResultOfClearsData(o, data) ==
    IF o.selectError # NULL
    THEN [defined |-> TRUE, data |-> 0, error |-> o.selectError, isLoading |-> FALSE]
    ELSE [defined |-> TRUE, data |-> data, error |-> NULL, isLoading |-> o.data = 0]

\* the end of createResult: with a selectError the result is an error result
\* whose data is selectResult; the state's own error is null in this slice
ResultOf(o, data) ==
    IF o.selectError # NULL
    THEN [defined |-> TRUE, data |-> o.selectResult,
          error |-> o.selectError, isLoading |-> FALSE]
    ELSE [defined |-> TRUE, data |-> data, error |-> NULL, isLoading |-> o.data = 0]

\* createResult(queryInfo, options): the selector runs unless a previous
\* result exists and state.data and options.select are those remembered in
\* currentResultState and currentResultOptions.  Returns the observer (its
\* selectResult, selectError and the count of selector runs) and the result.
CreateResult(o, select) ==
    LET selects == select # NoSelect /\ o.data # 0
        memoized == /\ o.currentResult.defined
                    /\ o.data = o.currentResultState
                    /\ select = o.currentResultOptions
        runs == selects /\ ~memoized
        throws == runs /\ select = "throws"
        o1 == IF runs
              THEN [o EXCEPT !.selectCalls = @ + 1,
                             !.selectResult =
                                 IF throws THEN @
                                 ELSE replaceData(o.currentResult.data, SelectFn(select, o.data)),
                             !.selectError = IF throws THEN SelectError ELSE NULL]
              ELSE o
        data == IF selects
                THEN IF throws THEN 0 ELSE o1.selectResult
                ELSE o.data
        result == ResultOf(o1, data)
    IN  [obs |-> [o1 EXCEPT !.derived = TRUE,
                            !.derivedData = o.data,
                            !.derivedSelect = select],
         result |-> result]

\* prevResult[key] !== nextResult[key]
Differs(key, a, b) ==
    CASE key = "data" -> a.data # b.data
      [] key = "error" -> a.error # b.error
      [] key = "isLoading" -> a.isLoading # b.isLoading

\* mutation: throwOnError adds nothing to the tracked properties
ShouldNotifyListenersTrackedOnly(o, prevResult, nextResult) ==
    IF ~prevResult.defined \/ o.trackedProps = {}
    THEN TRUE
    ELSE \E key \in o.trackedProps : Differs(key, prevResult, nextResult)

\* shouldNotifyListeners() of updateResult
ShouldNotifyListeners(o, prevResult, nextResult) ==
    IF ~prevResult.defined \/ o.trackedProps = {}
    THEN TRUE
    ELSE LET includedProps ==
                 IF "error" \notin o.trackedProps /\ o.throwOnError
                 THEN o.trackedProps \cup {"error"}
                 ELSE o.trackedProps
         IN  \E key \in includedProps : Differs(key, prevResult, nextResult)

\* updateResult(notifyOptions): createResult, remember the state and the
\* options the result was made of; a shallow-equal result changes nothing
\* more, another one becomes the current result and notify is called with
\* {listeners: shouldNotifyListeners(), ...notifyOptions}.  `notified` tells
\* what this call did: "unchanged", the listeners "notified" or the
\* notification "suppressed" by shouldNotifyListeners, "forced" or
\* "silenced" by the caller's notifyOptions.
UpdateResultWith(o, notifyOptions) ==
    LET created == CreateResult(o, o.select)
        o1 == [created.obs EXCEPT !.currentResultState = o.data,
                                  !.currentResultOptions = o.select,
                                  !.notified = "unchanged"]
    IN  IF shallowEqualObjects(created.result, o.currentResult)
        THEN o1
        ELSE [o1 EXCEPT !.currentResult = created.result,
                        !.notified =
                            CASE notifyOptions = "listeners: true" -> "forced"
                              [] notifyOptions = "listeners: false" -> "silenced"
                              [] OTHER ->
                                  IF ShouldNotifyListeners(o, o.currentResult, created.result)
                                  THEN "notified"
                                  ELSE "suppressed"]

UpdateResult(o) == UpdateResultWith(o, UNDEFINED)

\* getOptimisticResult(options): createResult, and only if the result is not
\* shallow-equal to the current one remember it, the options and the state
GetOptimisticResult(o, select) ==
    LET created == CreateResult(o, select) IN
    IF shallowEqualObjects(o.currentResult, created.result)
    THEN created.obs
    ELSE [created.obs EXCEPT !.currentResult = created.result,
                             !.currentResultOptions = select,
                             !.currentResultState = o.data]

\* setOptions(newOptions): no fetch on an unchanged entry, updateResult
SetOptions(o, select) == UpdateResult([o EXCEPT !.select = select])

\* the entry dispatches an action: onQueryUpdate of a subscribed observer
OnQueryUpdate(o) == IF o.mounted THEN UpdateResult(o) ELSE o

\* createObservableQuery(client, initialOptions): setOptions(initialOptions)
CreateObservableQuery ==
    /\ ~observer.created
    /\ \E select \in Selects \cup {NoSelect}, data \in {0} \cup DataRefs :
          observer' = SetOptions([NoObserver EXCEPT !.created = TRUE, !.data = data], select)
    /\ UNCHANGED <<qinfo, registry, mutationCache, rest>>

ObserverSetOptions ==
    /\ observer.created
    /\ \E select \in Selects \cup {NoSelect} :
          /\ SetOptions(observer, select).selectCalls <= MaxSelectCalls
          /\ observer' = SetOptions(observer, select)
    /\ UNCHANGED <<qinfo, registry, mutationCache, rest>>

\* obsQuery.refetch(): the fetch action, the success action with the data
\* (the same reference when structural sharing finds it equal), updateResult
ObserverRefetch ==
    /\ observer.created
    /\ \E data \in DataRefs :
          LET fetching == OnQueryUpdate(observer)
              success == OnQueryUpdate([fetching EXCEPT !.data = data])
              o == UpdateResult(success)
          IN  /\ o.selectCalls <= MaxSelectCalls
              /\ observer' = o
    /\ UNCHANGED <<qinfo, registry, mutationCache, rest>>

\* client.setData(...): a success action with manual data
QuerySetData ==
    /\ observer.created
    /\ \E data \in DataRefs :
          LET o == OnQueryUpdate([observer EXCEPT !.data = data]) IN
          /\ o.selectCalls <= MaxSelectCalls
          /\ observer' = o
    /\ UNCHANGED <<qinfo, registry, mutationCache, rest>>

\* obsQuery.subscribe(listener): the observer subscribes to the entry
ObserverSubscribe ==
    /\ observer.created
    /\ ~observer.mounted
    /\ observer' = [observer EXCEPT !.mounted = TRUE]
    /\ UNCHANGED <<qinfo, registry, mutationCache, rest>>

\* the last listener leaves: destroy()
ObserverUnsubscribe ==
    /\ observer.mounted
    /\ observer' = [observer EXCEPT !.mounted = FALSE]
    /\ UNCHANGED <<qinfo, registry, mutationCache, rest>>

\* a caller reads a property of a result wrapped by trackResult
ObserverTrackResult ==
    /\ observer.created
    /\ \E key \in ResultProps \ observer.trackedProps :
          observer' = [observer EXCEPT !.trackedProps = @ \cup {key}]
    /\ UNCHANGED <<qinfo, registry, mutationCache, rest>>

\* setOptions({throwOnError}) on the same entry with the same selector
ObserverSetThrowOnError ==
    /\ observer.created
    /\ \E throwOnError \in BOOLEAN :
          /\ throwOnError # observer.throwOnError
          /\ observer' = SetOptions([observer EXCEPT !.throwOnError = throwOnError],
                                    observer.select)
    /\ UNCHANGED <<qinfo, registry, mutationCache, rest>>

\* obsQuery.updateResult(notifyOptions)
ObserverUpdateResult ==
    /\ observer.created
    /\ \E notifyOptions \in NotifyOptions :
          /\ UpdateResultWith(observer, notifyOptions).selectCalls <= MaxSelectCalls
          /\ observer' = UpdateResultWith(observer, notifyOptions)
    /\ UNCHANGED <<qinfo, registry, mutationCache, rest>>

\* obsQuery.getOptimisticResult(options) with options of the same entry
ObserverGetOptimisticResult ==
    /\ observer.created
    /\ \E select \in Selects \cup {NoSelect} :
          /\ GetOptimisticResult(observer, select).selectCalls <= MaxSelectCalls
          /\ observer' = GetOptimisticResult(observer, select)
    /\ UNCHANGED <<qinfo, registry, mutationCache, rest>>

\* ------------------------------------------------------ ObservableQueries
\* The entry of a hash is "stale" (idle, its observers fetch on mount),
\* "fetching", or "fresh" (idle with data inside staleTime).  An emission is
\* one call of notify(); result is the order of the hashes of the combined
\* result.  emitted, subscribedNow, destroyedNow, mountFetches and call
\* describe the last step only.
Range(seq) == {seq[i] : i \in 1..Len(seq)}

HashesOf(q, list) == [i \in 1..Len(list) |-> q.hash[list[i]]]

Started(q, call) ==
    [q EXCEPT !.emitted = 0, !.subscribedNow = {}, !.destroyedNow = {},
              !.mountFetches = 0, !.call = call]

\* onUpdate of every ObservableQuery of the hash that is subscribed and still
\* in obsQueries: setResult(replaceAt(...)) and notify()
OnUpdates(q, h) ==
    Cardinality({o \in q.subscribed : q.hash[o] = h /\ o \in Range(q.obsQueries)})

\* obsQuery.subscribe(result => onUpdate(obsQuery, result)): the first
\* listener of the ObservableQuery subscribes it to its QueryInfo and fetches
\* on mount; dispatch({ type: 'fetch' }) notifies the entry's observers at once
SubscribeObsQuery(q, o) ==
    LET h == q.hash[o]
        q1 == [q EXCEPT !.subscribed = @ \cup {o}, !.subscribedNow = @ \cup {o}]
    IN  IF o \notin q.subscribed /\ q.entry[h] = "stale"
        THEN [q1 EXCEPT !.entry[h] = "fetching",
                        !.mountFetches = @ + 1,
                        !.emitted = @ + OnUpdates(q1, h)]
        ELSE q1

RECURSIVE SubscribeAll(_, _)
SubscribeAll(q, list) ==
    IF list = <<>> THEN q
    ELSE SubscribeAll(SubscribeObsQuery(q, Head(list)), Tail(list))

\* obsQuery.destroy() of each
DestroyAll(q, set) ==
    [q EXCEPT !.subscribed = @ \ set,
              !.destroyedNow = @ \cup (set \cap q.subscribed)]

\* prevObserversMap.get(queryHash)
PrevObserversMap(q, h) ==
    LET at == {i \in 1..Len(q.obsQueries) : q.hash[q.obsQueries[i]] = h}
    IN  IF at = {} THEN 0
        ELSE q.obsQueries[CHOOSE i \in at : \A j \in at : j <= i]

\* findMatchingObservers(queries): the observers of the new list in its
\* order, reused by hash, created by client.watchQuery otherwise
RECURSIVE FindMatchingObservers(_, _)
FindMatchingObservers(q, list) ==
    IF list = <<>> THEN [q |-> q, observers |-> <<>>]
    ELSE LET h == Head(list)
             match == PrevObserversMap(q, h)
             fresh == q.created + 1
             q1 == IF match # 0 THEN q
                   ELSE [q EXCEPT !.created = fresh, !.hash[fresh] = h]
             more == FindMatchingObservers(q1, Tail(list))
         IN  [q |-> more.q,
              observers |-> <<IF match # 0 THEN match ELSE fresh>> \o more.observers]

\* the elements of a sequence that are not in a set, in its order
Difference(seq, set) == SelectSeq(seq, LAMBDA o : o \notin set)

\* mutation: the list is adopted without subscribing its new observers
SetQueriesNoSubscribe(q, list) ==
    LET found == FindMatchingObservers(q, list)
        prevObsQueries == q.obsQueries
        newObservers == found.observers
        q1 == [found.q EXCEPT !.obsQueries = newObservers,
                              !.result = HashesOf(found.q, newObservers)]
    IN  IF q.listeners = 0 THEN q1
        ELSE [DestroyAll(q1, Range(prevObsQueries) \ Range(newObservers))
                 EXCEPT !.emitted = @ + 1]

\* setQueries(newQueries)
SetQueries(q, list) ==
    LET found == FindMatchingObservers(q, list)
        prevObsQueries == q.obsQueries
        newObservers == found.observers
        hasIndexChange ==
            \E i \in 1..Len(newObservers) :
                i > Len(prevObsQueries) \/ newObservers[i] # prevObsQueries[i]
        q1 == [found.q EXCEPT !.obsQueries = newObservers,
                              !.result = HashesOf(found.q, newObservers)]
        q2 == DestroyAll(q1, Range(prevObsQueries) \ Range(newObservers))
        q3 == SubscribeAll(q2, Difference(newObservers, Range(prevObsQueries)))
    IN  IF Len(prevObsQueries) = Len(newObservers) /\ ~hasIndexChange
        THEN found.q
        ELSE IF q.listeners = 0 THEN q1
        ELSE [q3 EXCEPT !.emitted = @ + 1]

\* subscribe(listener) of the ObservableQueries
QueriesOnSubscribe(q) ==
    LET q1 == [q EXCEPT !.listeners = @ + 1]
    IN  IF q1.listeners = 1 THEN SubscribeAll(q1, q1.obsQueries) ELSE q1

\* the unsubscribe function it returned
QueriesOnUnsubscribe(q) ==
    LET q1 == [q EXCEPT !.listeners = @ - 1]
    IN  IF q1.listeners = 0 THEN DestroyAll(q1, Range(q1.obsQueries)) ELSE q1

\* the fetch of an entry settles: dispatch({ type: 'success' })
EntrySettled(q, h, fresh) ==
    [q EXCEPT !.entry[h] = IF fresh THEN "fresh" ELSE "stale",
              !.emitted = @ + OnUpdates(q, h)]

\* the lists setQueries can be given while observers can still be created
Creatable ==
    {list \in QueryLists :
        observableQueries.created
          + Cardinality({i \in 1..Len(list) :
                            PrevObserversMap(observableQueries, list[i]) = 0})
            <= MaxObservers}

QueriesSetQueries ==
    /\ \E list \in Creatable :
          /\ observableQueries' =
                 SetQueries(Started(observableQueries, "setQueries"), list)
    /\ UNCHANGED <<qinfo, registry, mutationCache, observer, infinite, hydration,
                   keys,
                   notifications, mutationInfo>>

QueriesSubscribe ==
    /\ observableQueries.listeners < MaxCombined
    /\ observableQueries' =
           QueriesOnSubscribe(Started(observableQueries, "subscribe"))
    /\ UNCHANGED <<qinfo, registry, mutationCache, observer, infinite, hydration,
                   keys,
                   notifications, mutationInfo>>

QueriesUnsubscribe ==
    /\ observableQueries.listeners > 0
    /\ observableQueries' =
           QueriesOnUnsubscribe(Started(observableQueries, "unsubscribe"))
    /\ UNCHANGED <<qinfo, registry, mutationCache, observer, infinite, hydration,
                   keys,
                   notifications, mutationInfo>>

QueriesEntrySettle ==
    /\ \E h \in Hashes, fresh \in BOOLEAN :
          /\ observableQueries.entry[h] = "fetching"
          /\ observableQueries' =
                 EntrySettled(Started(observableQueries, "settled"), h, fresh)
    /\ UNCHANGED <<qinfo, registry, mutationCache, observer, infinite, hydration,
                   keys,
                   notifications, mutationInfo>>

\* staleTime passes for a fresh entry
QueriesEntryStale ==
    /\ \E h \in Hashes :
          /\ observableQueries.entry[h] = "fresh"
          /\ observableQueries' =
                 [Started(observableQueries, "stale") EXCEPT !.entry[h] = "stale"]
    /\ UNCHANGED <<qinfo, registry, mutationCache, observer, infinite, hydration,
                   keys,
                   notifications, mutationInfo>>


\* --------------------------------------------------------- infinite query
\* The page the fetcher returns for a param is a function of the param, so
\* that a page list can be told to be aligned with its params.
PageOf(param) == 10 + param

IsNullish(param) == param \in {UndefinedParam, NullParam}

\* mutation: the list grows whatever max is
addToEndUnbounded(items, item, max) == Append(items, item)

\* addToEnd(items, item, max)
addToEnd(items, item, max) ==
    LET newItems == Append(items, item)
    IN  IF max # 0 /\ Len(newItems) > max THEN Tail(newItems) ELSE newItems

\* addToStart(items, item, max)
addToStart(items, item, max) ==
    LET newItems == <<item>> \o items
    IN  IF max # 0 /\ Len(newItems) > max
        THEN SubSeq(newItems, 1, Len(newItems) - 1) ELSE newItems

\* options.getNextPageParam(lastPage, pages, lastPageParam, pageParams)
getNextPageParam(server, data) ==
    LET lastPageParam == data.pageParams[Len(data.pages)]
    IN  IF lastPageParam < server.last THEN lastPageParam + 1 ELSE server.none

\* options.getPreviousPageParam(firstPage, pages, firstPageParam, pageParams)
getPreviousPageParam(server, data) ==
    LET firstPageParam == data.pageParams[1]
    IN  IF firstPageParam > server.first THEN firstPageParam - 1 ELSE server.none

\* hasNextPage(options, data)
hasNextPage(q) ==
    IF ~q.defined THEN FALSE ELSE ~IsNullish(getNextPageParam(q.server, q.data))

\* hasPreviousPage(options, data)
hasPreviousPage(q) ==
    IF ~q.defined THEN FALSE ELSE ~IsNullish(getPreviousPageParam(q.server, q.data))

\* mutation: fetchPage asks the fetcher whatever the param is
fetchPageAlways(r, param, previous, maxPages, failAt) ==
    IF r.rejected \/ Len(r.calls) + 1 = failAt
    THEN [r EXCEPT !.rejected = TRUE]
    ELSE [r EXCEPT !.calls = Append(@, param),
                   !.data = [pages |-> addToEnd(r.data.pages, PageOf(param), maxPages),
                             pageParams |-> addToEnd(r.data.pageParams, param, maxPages)]]

\* fetchPage(data, param, previous) on r = [data, calls, rejected]: the
\* failAt-th call of the fetcher rejects (or finds the fetch cancelled)
fetchPage(r, param, previous, maxPages, failAt) ==
    IF r.rejected THEN r
    ELSE IF IsNullish(param) /\ Len(r.data.pages) > 0 THEN r
    ELSE IF Len(r.calls) + 1 = failAt THEN [r EXCEPT !.rejected = TRUE]
    ELSE [r EXCEPT
            !.calls = Append(@, param),
            !.data = IF previous
                     THEN [pages |-> addToStart(r.data.pages, PageOf(param), maxPages),
                           pageParams |-> addToStart(r.data.pageParams, param, maxPages)]
                     ELSE [pages |-> addToEnd(r.data.pages, PageOf(param), maxPages),
                           pageParams |-> addToEnd(r.data.pageParams, param, maxPages)]]

\* for (let i = 1; i < remainingPages; i++) of the fetch function
RECURSIVE RemainingPages(_, _, _, _, _)
RemainingPages(r, i, remainingPages, q, failAt) ==
    IF i >= remainingPages \/ r.rejected THEN r
    ELSE RemainingPages(
             fetchPage(r, getNextPageParam(q.server, r.data), FALSE, q.maxPages, failAt),
             i + 1, remainingPages, q, failAt)

\* context.fetchFn of the infinite query behavior; pages = 0 is undefined
InfiniteFetchFn(q, direction, pages, failAt) ==
    LET oldData == IF q.defined THEN q.data ELSE EmptyData
        start == [data |-> EmptyData, calls |-> <<>>, rejected |-> FALSE]
        previous == direction = "backward"
        param == IF previous THEN getPreviousPageParam(q.server, oldData)
                 ELSE getNextPageParam(q.server, oldData)
        first == fetchPage(start,
                           IF Len(oldData.pageParams) > 0 THEN oldData.pageParams[1]
                           ELSE InitialPageParam,
                           FALSE, q.maxPages, failAt)
        remainingPages == IF pages # 0 THEN pages ELSE Len(oldData.pages)
    IN  IF direction # UNDEFINED /\ Len(oldData.pages) > 0
        THEN fetchPage([start EXCEPT !.data = oldData], param, previous,
                       q.maxPages, failAt)
        ELSE RemainingPages(first, 1, remainingPages, q, failAt)

\* a fetch of the infinite query and the success or error it ends in
InfiniteFetched(q, direction, pages, failAt) ==
    LET r == InfiniteFetchFn(q, direction, pages, failAt)
        q1 == [q EXCEPT !.calls = r.calls, !.direction = direction,
                        !.pages = pages, !.oldData = q.data]
    IN  IF r.rejected THEN [q1 EXCEPT !.outcome = "rejected"]
        ELSE [q1 EXCEPT !.outcome = "resolved", !.data = r.data, !.defined = TRUE]

\* fetchInfiniteQuery / refetch: a plain fetch
InfiniteFetch ==
    /\ \E pages \in 0..MaxPagesAsked, failAt \in 0..MaxPagesAsked :
          infinite' = InfiniteFetched(infinite, UNDEFINED, pages, failAt)
    /\ UNCHANGED <<qinfo, registry, mutationCache, observer, observableQueries,
                   hydration, keys,
                   notifications, mutationInfo>>

\* obsQuery.fetchNextPage()
InfiniteFetchNextPage ==
    /\ \E failAt \in 0..1 :
          infinite' = InfiniteFetched(infinite, "forward", 0, failAt)
    /\ UNCHANGED <<qinfo, registry, mutationCache, observer, observableQueries,
                   hydration, keys,
                   notifications, mutationInfo>>

\* obsQuery.fetchPreviousPage()
InfiniteFetchPreviousPage ==
    /\ \E failAt \in 0..1 :
          infinite' = InfiniteFetched(infinite, "backward", 0, failAt)
    /\ UNCHANGED <<qinfo, registry, mutationCache, observer, observableQueries,
                   hydration, keys,
                   notifications, mutationInfo>>

\* the server gains or loses pages between two fetches
InfiniteServerChange ==
    /\ \E server \in Servers :
          /\ server # infinite.server
          /\ infinite' = [infinite EXCEPT !.server = server, !.outcome = "none",
                                          !.calls = <<>>]
    /\ UNCHANGED <<qinfo, registry, mutationCache, observer, observableQueries,
                   hydration, keys,
                   notifications, mutationInfo>>


\* ------------------------------------------------------ dehydrate, hydrate
\* isGeneratedKey(key)
isGeneratedKey(key) == key \in GeneratedKeys

\* defaultShouldDehydrateQuery(queryInfo), or options.shouldDehydrateQuery
ShouldDehydrateQuery(filter, entry) ==
    IF filter = UNDEFINED THEN entry.status = "success" ELSE TRUE

\* dehydrate(client, options): the state of every entry that passes, by hash
dehydrate(cache, filter) ==
    [k \in HydrationKeys |->
        IF cache[k].exists /\ ~isGeneratedKey(k) /\ ShouldDehydrateQuery(filter, cache[k])
        THEN cache[k] ELSE NoLive]

\* mutation: hydrate overwrites whatever the live entry is
hydrateOverwrites(cache, dehydrated) ==
    [k \in HydrationKeys |->
        IF dehydrated[k].exists THEN [dehydrated[k] EXCEPT !.fetchStatus = "idle"]
        ELSE cache[k]]

\* hydrate(client, dehydratedState): queries.forEach over the payload
hydrate(cache, dehydrated) ==
    [k \in HydrationKeys |->
        LET queryInfo == cache[k]
            dehydratedQueryState == [dehydrated[k] EXCEPT !.fetchStatus = "idle"]
        IN  IF ~dehydrated[k].exists THEN queryInfo
            ELSE IF queryInfo.exists
            THEN IF queryInfo.dataUpdatedAt < dehydratedQueryState.dataUpdatedAt
                 THEN dehydratedQueryState
                 ELSE queryInfo
            ELSE dehydratedQueryState]

\* payload, before and hydrated describe the last step only
HydrationStep(h) ==
    [h EXCEPT !.hydrated = FALSE, !.payload = NoHydration.payload,
              !.before = NoHydration.before]

\* useQuery on the client builds an entry
HydrationBuild ==
    /\ \E k \in HydrationKeys :
          /\ ~hydration.client[k].exists
          /\ hydration' = [HydrationStep(hydration) EXCEPT
                              !.client[k] = [NoLive EXCEPT !.exists = TRUE]]
    /\ UNCHANGED <<qinfo, registry, mutationCache, observer, observableQueries,
                   infinite, keys,
                   notifications, mutationInfo>>

\* a fetch of an entry of the client starts
HydrationFetch ==
    /\ \E k \in HydrationKeys :
          /\ hydration.client[k].exists
          /\ hydration.client[k].fetchStatus = "idle"
          /\ hydration' = [HydrationStep(hydration) EXCEPT
                 !.client[k] =
                     [@ EXCEPT !.fetchStatus = "fetching",
                               !.status = IF @ = "success" \/ hydration.client[k].dataUpdatedAt # 0
                                          THEN @ ELSE "pending",
                               !.error = IF hydration.client[k].dataUpdatedAt = 0
                                         THEN NULL ELSE @]]
    /\ UNCHANGED <<qinfo, registry, mutationCache, observer, observableQueries,
                   infinite, keys,
                   notifications, mutationInfo>>

\* it succeeds with data, or fails
HydrationSettle ==
    /\ \E k \in HydrationKeys, data \in 0..MaxData :
          /\ hydration.client[k].fetchStatus = "fetching"
          /\ hydration' = [HydrationStep(hydration) EXCEPT
                 !.client[k] =
                     IF data # 0
                     THEN [@ EXCEPT !.fetchStatus = "idle", !.status = "success",
                                    !.data = data, !.error = NULL,
                                    !.dataUpdatedAt = hydration.clock]
                     ELSE [@ EXCEPT !.fetchStatus = "idle", !.status = "error",
                                    !.error = "Error"]]
    /\ UNCHANGED <<qinfo, registry, mutationCache, observer, observableQueries,
                   infinite, keys,
                   notifications, mutationInfo>>

\* Date.now() of the client advances
HydrationTick ==
    /\ hydration.clock < MaxUpdatedAt
    /\ hydration' = [HydrationStep(hydration) EXCEPT !.clock = @ + 1]
    /\ UNCHANGED <<qinfo, registry, mutationCache, observer, observableQueries,
                   infinite, keys,
                   notifications, mutationInfo>>

\* hydrate(client, dehydrate(server, options))
HydrationHydrate ==
    /\ \E server \in ServerCaches, filter \in DehydrateFilters :
          hydration' = [hydration EXCEPT
                           !.payload = dehydrate(server, filter),
                           !.before = hydration.client,
                           !.client = hydrate(hydration.client, dehydrate(server, filter)),
                           !.hydrated = TRUE]
    /\ UNCHANGED <<qinfo, registry, mutationCache, observer, observableQueries,
                   infinite, keys,
                   notifications, mutationInfo>>


\* ------------------------------------------------------------------ hashKey
HasProp(val, name) == \E i \in 1..Len(val.props) : val.props[i][1] = name

PropOf(val, name) ==
    val.props[CHOOSE i \in 1..Len(val.props) : val.props[i][1] = name][2]

\* JSON.stringify of the value of a property or element: NaN gives null
StringifyAtom(a) == IF a = "NaN" THEN "null" ELSE a

\* the names among the given ones of the properties JSON.stringify writes:
\* a property whose value is undefined is left out
Written(val, names) ==
    SelectSeq(names, LAMBDA name :
        HasProp(val, name) /\ PropOf(val, name).atom # "undefined")

RECURSIVE Join(_)
Join(strings) ==
    IF strings = <<>> THEN ""
    ELSE IF Len(strings) = 1 THEN strings[1]
    ELSE strings[1] \o "," \o Join(Tail(strings))

\* the names of the properties in insertion order
InsertionOrder(val) == [i \in 1..Len(val.props) |-> val.props[i][1]]

\* JSON.stringify(value) without a replacer: properties in insertion order
RECURSIVE StringifyUnsorted(_)
StringifyUnsorted(val) ==
    IF val.atom # "object" THEN StringifyAtom(val.atom)
    ELSE LET names == Written(val, InsertionOrder(val))
         IN  "{" \o Join([i \in 1..Len(names) |->
                            "\"" \o names[i] \o "\":"
                                \o StringifyUnsorted(PropOf(val, names[i]))]) \o "}"

\* JSON.stringify(value, replacer) with the replacer of hashKey: the keys of
\* every plain object sorted
RECURSIVE Stringify(_)
Stringify(val) ==
    IF val.atom # "object" THEN StringifyAtom(val.atom)
    ELSE LET names == Written(val, SortedProps)
         IN  "{" \o Join([i \in 1..Len(names) |->
                            "\"" \o names[i] \o "\":"
                                \o Stringify(PropOf(val, names[i]))]) \o "}"

\* mutation: JSON.stringify(fullKey) without the replacer
hashKeyUnsorted(key, variables) ==
    "[\"" \o key \o "\""
        \o (IF variables.atom = "undefined" THEN ""
            ELSE "," \o StringifyUnsorted(variables))
        \o "]"

\* hashKey(getFullKey(key, variables)): [key] when the variables are undefined
hashKey(key, variables) ==
    "[\"" \o key \o "\""
        \o (IF variables.atom = "undefined" THEN "" ELSE "," \o Stringify(variables))
        \o "]"

\* the orders the properties of an object, and of the objects in it, can be
\* written in
Reversed(seq) == [i \in 1..Len(seq) |-> seq[Len(seq) + 1 - i]]

Reorderings(val) ==
    IF val.atom # "object" THEN {val}
    ELSE LET inner(p) == IF p[2].atom = "object"
                         THEN {<<p[1], p[2]>>, <<p[1], Obj(Reversed(p[2].props))>>}
                         ELSE {p}
             lists == IF Len(val.props) = 0 THEN {<<>>}
                      ELSE IF Len(val.props) = 1
                      THEN {<<p>> : p \in inner(val.props[1])}
                      ELSE {<<p, q>> : <<p, q>> \in inner(val.props[1]) \X inner(val.props[2])}
         IN  {Obj(l) : l \in lists} \cup {Obj(Reversed(l)) : l \in lists}

KeysHashed(k, other, step) ==
    [k EXCEPT !.other = other, !.step = step,
              !.hash = hashKey(k.key, k.variables),
              !.otherHash = hashKey(k.key, other)]

\* the same variables are written with their properties in another order
KeysReorder ==
    /\ \E other \in Reorderings(keys.variables) :
          keys' = KeysHashed(keys, other, "reordered")
    /\ UNCHANGED <<qinfo, registry, mutationCache, observer, observableQueries,
                   infinite, hydration,
                   notifications, mutationInfo>>

\* the variables that differ from the given ones in one value
OneChange(val) ==
    IF val.atom # "object"
    THEN {Atom(a) : a \in OuterAtoms \ {val.atom}}
    ELSE {other \in {Obj([val.props EXCEPT ![i] = <<@[1], v>>]) :
                        i \in 1..Len(val.props),
                        v \in {Atom(a) : a \in OuterAtoms} \cup InnerObjects} :
            other \notin Reorderings(val)}

\* variables with another value are hashed under the same key
KeysChange ==
    /\ \E other \in OneChange(keys.variables) :
          keys' = KeysHashed(keys, other, "changed")
    /\ UNCHANGED <<qinfo, registry, mutationCache, observer, observableQueries,
                   infinite, hydration,
                   notifications, mutationInfo>>

\* --------------------------------------------- dispatch, listeners reacting
\* What a listener's callback calls on the entry while it is being notified.
React(w, reaction, readsSignal) ==
    CASE reaction = "setData" -> SetDataOp(w, ManualData, NoUpdatedAt, TRUE)
      [] reaction = "invalidate" -> InvalidateOp(w)
      [] reaction = "cancel" -> CancelOp(w, [revert |-> FALSE, silent |-> FALSE])
      [] reaction = "fetch" -> FetchOp(w, TRUE, UNDEFINED, readsSignal)
      [] OTHER -> w

\* dispatch(action) with a listener that reacts: state = reducer(), then
\* listeners.forEach(l => l.onQueryUpdate()), then cache.notify('updated')
\* (the world after the reducer is evaluated once, as a bound value)
ReactingDispatch(w, action, reaction, readsSignal) ==
    CHOOSE after \in {Emit(React(w1, reaction, readsSignal), action.type) :
                         w1 \in {[w EXCEPT !.state = Reducer(w, action)]}} : TRUE

\* the transitions, the listener's and the cache's notifications of a
\* dispatch whose listener reacted: those of the dispatches the reaction
\* made lie between the outer transition and its 'updated' event
TraceOf(before, after, type) ==
    LET inner == SelectSeq(SubSeq(after.log, Len(before.log) + 1, Len(after.log) - 1),
                           LAMBDA e : e \in ActionTypes)
        kinds == <<"applied", "listener", "updated">>
    IN  <<<<"applied", type>>, <<"listener", type>>>>
        \o [i \in 1..(3 * Len(inner)) |->
               <<kinds[((i - 1) % 3) + 1], inner[((i - 1) \div 3) + 1]>>]
        \o <<<<"updated", type>>>>

\* queryInfo.setData(), an observer's listener reacting to the update
ReactingSetData ==
    /\ queries
    /\ listeners > 0
    /\ \E reaction \in Reactions, readsSignal \in options.readsSignal :
          LET action == [type |-> "success", data |-> ManualData,
                         dataUpdatedAt |-> NoUpdatedAt, manual |-> TRUE]
              after == ReactingDispatch(World, action, reaction, readsSignal)
          IN  /\ reaction = "fetch" =>
                     CanFetchOp([World EXCEPT !.state = Reducer(World, action)], TRUE)
              /\ Commit(after)
              /\ notifications' = TraceOf(World, after, "success")
    /\ UNCHANGED <<listeners, disabled, options, online, focused, now, registry,
                   mutationCache, observer, observableQueries, infinite,
                   hydration, keys, mutationInfo>>

\* queryInfo.invalidate(), an observer's listener reacting to the update
ReactingInvalidate ==
    /\ queries
    /\ listeners > 0
    /\ ~state.isInvalidated
    /\ \E reaction \in Reactions, readsSignal \in options.readsSignal :
          LET action == [type |-> "invalidate"]
              after == ReactingDispatch(World, action, reaction, readsSignal)
          IN  /\ reaction = "fetch" =>
                     CanFetchOp([World EXCEPT !.state = Reducer(World, action)], TRUE)
              /\ Commit(after)
              /\ notifications' = TraceOf(World, after, "invalidate")
    /\ UNCHANGED <<listeners, disabled, options, online, focused, now, registry,
                   mutationCache, observer, observableQueries, infinite,
                   hydration, keys, mutationInfo>>


\* ------------------------------------------------------- specifications
\* The fetch lifecycle of an entry without observers: fetch, cancel, manual
\* data, reset, the fetcher's outcomes, one retry, connectivity.
FetchOptions ==
    [retry : {1}, networkMode : {"online"}, gcTime : {10},
     readsSignal : {{FALSE}}, results : {FetcherResults}]

Init == InitWith(FetchOptions)

Next ==
    \/ Fetch
    \/ Cancel
    \/ SetData
    \/ Reset
    \/ AttemptResolve
    \/ AttemptReject
    \/ SleepDone
    \/ SetOnline

Spec == Init /\ [][Next]_vars

\* The retry loop: a fetcher that may fail again and again under retry = 3,
\* with cancellation, connectivity and the observers whose leaving cancels
\* further retries.
RetryOptions ==
    [retry : {3}, networkMode : {"online"}, gcTime : {10},
     readsSignal : {{FALSE}}, results : {{FetchedData}}]

InitRetry == InitWith(RetryOptions)

NextRetry ==
    \/ Fetch
    \/ CancelQueries
    \/ Subscribe
    \/ Unsubscribe
    \/ AttemptResolve
    \/ AttemptReject
    \/ SleepDone
    \/ SetOnline

SpecRetry == InitRetry /\ [][NextRetry]_vars

\* Subscription and garbage collection: observers come and go, fetches run
\* with and without them, the GC timer fires, entries are removed and rebuilt.
\* The fetcher either reads context.signal on every call or never does.
GcOptions ==
    [retry : {1}, networkMode : {"online"}, gcTime : {0, 10},
     readsSignal : {{FALSE}, {TRUE}}, results : {{FetchedData}}]

InitGc == InitWith(GcOptions)

NextGc ==
    \/ Fetch
    \/ FetchOptimistic
    \/ Subscribe
    \/ Unsubscribe
    \/ AttemptResolve
    \/ AttemptReject
    \/ SleepDone
    \/ GcFire
    \/ Remove
    \/ Build

SpecGc == InitGc /\ [][NextGc]_vars

\* Staleness: fetchQuery and invalidation on an entry whose data ages.
StaleOptions ==
    [retry : {0}, networkMode : {"online"}, gcTime : {10},
     readsSignal : {{FALSE}}, results : {{FetchedData}}]

InitStale == InitWith(StaleOptions)

NextStale ==
    \/ Fetch
    \/ FetchQuery
    \/ SetData
    \/ Invalidate
    \/ Remove
    \/ AttemptResolve
    \/ AttemptReject
    \/ Tick

SpecStale == InitStale /\ [][NextStale]_vars

\* Invalidation through the client: entries with enabled and disabled
\* observers, with and without data, idle and fetching.
InvalidateOptions ==
    [retry : {0}, networkMode : {"online"}, gcTime : {10},
     readsSignal : {{FALSE}}, results : {{FetchedData}}]

InitInvalidate == InitWith(InvalidateOptions)

NextInvalidate ==
    \/ Fetch
    \/ InvalidateQueries
    \/ Subscribe
    \/ SubscribeDisabled
    \/ Unsubscribe
    \/ UnsubscribeDisabled
    \/ AttemptResolve
    \/ AttemptReject

SpecInvalidate == InitInvalidate /\ [][NextInvalidate]_vars

\* The caches as registries: entries are built, removed, cleared, observed
\* and collected.
InitCache == InitWith(StaleOptions)

NextCache ==
    \/ RegistryBuild
    \/ RegistryRemove
    \/ RegistryClear
    \/ RegistryGcFire
    \/ RegistrySubscribe
    \/ RegistryUnsubscribe
    \/ MutationBuild
    \/ MutationRemove
    \/ MutationClear
    \/ MutationGcFire

SpecCache == InitCache /\ [][NextCache]_vars

\* Mutations: trigger() from the mutation function to the last callback, an
\* observer of the MutationInfo, its GC timer, and clear().
InitMutation == InitWith(StaleOptions)

NextMutation ==
    \/ TriggerMutation
    \/ MutationFetcherResolve
    \/ MutationFetcherReject
    \/ MutationCallbackReturn
    \/ MutationCallbackThrow
    \/ MutationSubscribe
    \/ MutationUnsubscribe
    \/ MutationGcFire
    \/ MutationClear

SpecMutation == InitMutation /\ [][NextMutation]_vars

\* Result derivation: an observer's selector under changing data, changing
\* options and the three callers of createResult.
InitSelect == InitWith(StaleOptions)

NextSelect ==
    \/ CreateObservableQuery
    \/ ObserverSetOptions
    \/ ObserverRefetch
    \/ QuerySetData
    \/ ObserverSubscribe
    \/ ObserverUnsubscribe
    \/ ObserverGetOptimisticResult

SpecSelect == InitSelect /\ [][NextSelect]_vars

\* Notification: the properties a caller read, throwOnError, and results
\* that change through the data, the selector and its errors.
InitTrack == InitWith(StaleOptions)

NextTrack ==
    \/ CreateObservableQuery
    \/ ObserverSetOptions
    \/ ObserverSetThrowOnError
    \/ QuerySetData
    \/ ObserverSubscribe
    \/ ObserverTrackResult
    \/ ObserverUpdateResult

SpecTrack == InitTrack /\ [][NextTrack]_vars

\* An ObservableQueries over two hashes: setQueries with every list, its
\* listeners, the entries' fetches settling and going stale.
InitQueries == InitWith(StaleOptions)

NextQueries ==
    \/ QueriesSetQueries
    \/ QueriesSubscribe
    \/ QueriesUnsubscribe
    \/ QueriesEntrySettle
    \/ QueriesEntryStale

SpecQueries == InitQueries /\ [][NextQueries]_vars

\* An infinite query with and without maxPages: plain fetches of up to
\* MaxPagesAsked pages, fetchNextPage, fetchPreviousPage, a server whose
\* first and last page change.
InitInfinite ==
    InitOf(StaleOptions, {[NoInfinite EXCEPT !.maxPages = m] : m \in MaxPagesOptions},
           {NoKeys})

NextInfinite ==
    \/ InfiniteFetch
    \/ InfiniteFetchNextPage
    \/ InfiniteFetchPreviousPage
    \/ InfiniteServerChange

SpecInfinite == InitInfinite /\ [][NextInfinite]_vars

\* A client cache with a plain and a generated key, its entries built,
\* fetched and settled by the client's clock, hydrated from every cache.
InitHydration == InitWith(StaleOptions)

NextHydration ==
    \/ HydrationBuild
    \/ HydrationFetch
    \/ HydrationSettle
    \/ HydrationTick
    \/ HydrationHydrate

SpecHydration == InitHydration /\ [][NextHydration]_vars

\* A key and every value of variables up to two levels of plain objects,
\* hashed against its reorderings and against other variables.
InitKeys ==
    InitOf(StaleOptions, {NoInfinite},
           {[NoKeys EXCEPT !.key = k, !.variables = v, !.other = v] :
                k \in KeyNames, v \in Variables})

NextKeys ==
    \/ KeysReorder
    \/ KeysChange

SpecKeys == InitKeys /\ [][NextKeys]_vars

\* An observed entry whose listener reacts to the updates of setData and
\* invalidate by calling setData, invalidate, cancel or fetch.
InitReact == InitWith(StaleOptions)

NextReact ==
    \/ Subscribe
    \/ Fetch
    \/ AttemptResolve
    \/ AttemptReject
    \/ ReactingSetData
    \/ ReactingInvalidate

SpecReact == InitReact /\ [][NextReact]_vars

\* An entry that may be built with initialData, whose data is set by the
\* fetcher and by callers that may pass a timestamp of their own.
DataOptions ==
    [retry : {0}, networkMode : {"online"}, gcTime : {10},
     readsSignal : {{FALSE}}, results : {FetcherResults},
     initialData : {UNDEFINED, InitialData},
     initialDataUpdatedAt : {NoUpdatedAt, 0}]

InitData == InitWith(DataOptions)

NextData ==
    \/ Fetch
    \/ CancelQueries
    \/ SetDataWith
    \/ SetQueryData
    \/ Reset
    \/ AttemptResolve
    \/ AttemptReject

SpecData == InitData /\ [][NextData]_vars

\* An entry fetched while connectivity and focus come and go, the client
\* being mounted: the fetcher's promise settles, the retry delay elapses, and
\* connectivity and focus are restored again and again.
InitPause == InitWith(FetchOptions)

NextPause ==
    \/ Fetch
    \/ AttemptResolve
    \/ AttemptReject
    \/ SleepDone
    \/ SetOnline
    \/ SetFocused

\* a step that leaves the process online and focused
Restored == (SetOnline \/ SetFocused) /\ online' /\ focused'

SpecPause ==
    /\ InitPause
    /\ [][NextPause]_vars
    /\ WF_vars(AttemptResolve \/ AttemptReject)
    /\ WF_vars(SleepDone)
    /\ WF_vars(SetOnline /\ online')
    /\ WF_vars(SetFocused /\ focused')
    /\ SF_vars(Restored)

\* An entry fetched again while it is paused, connectivity and focus
\* changing with the client mounted or not.
InitResume == InitWith(FetchOptions)

NextResume ==
    \/ Fetch
    \/ AttemptResolve
    \/ AttemptReject
    \/ SleepDone
    \/ SetOnline
    \/ SetFocused
    \/ SetOnlineUnmounted
    \/ SetFocusedUnmounted

SpecResume == InitResume /\ [][NextResume]_vars

\* A MutationInfo triggered while it is mutating and while the process is
\* offline.  The mutation function's promise settles, awaited callbacks
\* return or throw, and connectivity and focus come back with the client
\* mounted.
InitTrigger == InitWith(StaleOptions)

NextTrigger ==
    \/ InfoBuild
    \/ InfoTriggered
    \/ InfoFetcherResolve
    \/ InfoFetcherReject
    \/ InfoCallbacksReturn
    \/ InfoCallbackThrow
    \/ SetOnline
    \/ SetFocused

SpecTrigger ==
    /\ InitTrigger /\ [][NextTrigger]_vars
    /\ WF_vars(InfoFetcherResolve \/ InfoFetcherReject)
    /\ WF_vars(InfoCallbacksReturn)
    /\ WF_vars(SetOnline /\ online')
    /\ WF_vars(SetFocused /\ focused')
    /\ SF_vars(Restored)

\* Eviction: an entry with a finite gcTime under every caller the entry
\* has.  The fetcher's promise settles and an armed GC timer fires.
LeakOptions ==
    [retry : {0}, networkMode : {"online"}, gcTime : {10},
     readsSignal : {{FALSE}, {TRUE}}, results : {{FetchedData}}]

InitLeak == InitWith(LeakOptions)

NextLeak ==
    \/ Fetch
    \/ FetchOptimistic
    \/ SetData
    \/ Cancel
    \/ Subscribe
    \/ Unsubscribe
    \/ AttemptResolve
    \/ AttemptReject
    \/ GcFire

SpecLeak ==
    /\ InitLeak /\ [][NextLeak]_vars
    /\ WF_vars(AttemptResolve \/ AttemptReject)
    /\ WF_vars(GcFire)

TypeOK ==
    /\ state.status \in {"pending", "error", "success"}
    /\ state.fetchStatus \in {"idle", "fetching", "paused"}
    /\ retryer \in 0..MaxRetryers
    /\ listeners \in 0..MaxListeners

\* ------------------------------------------------------------- claims
Unsettled == retryer # 0 /\ ~retryers[retryer].isResolved

\* C1: while the entry is fetching and its fetch has not settled, fetch()
\* without cancelRefetch returns the promise of the retryer in flight: the
\* fetcher is not invoked, no action is dispatched, the state, the retryer
\* and its count of invocations stay as they are.
C1_Dedup ==
    (queries /\ state.fetchStatus = "fetching" /\ ~(retryer # 0 /\ retryers[retryer].isResolved)) =>
        /\ retryer # 0
        /\ FetchReturnsPromise(World, FALSE)
        /\ \A meta \in Metas, readsSignal \in options.readsSignal :
              LET w == FetchOp(World, FALSE, meta, readsSignal) IN
              /\ w.log = <<>>
              /\ w.returned = retryer
              /\ w.retryer = retryer
              /\ w.state = state
              /\ w.retryers[retryer].calls = retryers[retryer].calls
              /\ w.retryers[retryer].promise = retryers[retryer].promise

\* a second fetch() has just returned the promise of the fetch in flight,
\* whose fetcher was invoked once
C1_Witness ==
    /\ state.fetchStatus = "fetching"
    /\ Unsettled
    /\ returned = retryer
    /\ log = <<>>
    /\ retryers[retryer].calls = 1
    /\ retryers[retryer].phase = "inflight"

RevertCancel(silent) == CancelOp(World, [revert |-> TRUE, silent |-> silent])

RevertedTo(w) ==
    /\ revertState # NoRevertState
    /\ w.state = revertState
    /\ revertState.status = "success" =>
          w.state.status = "success" /\ w.state.data = revertState.data
    /\ revertState.status = "error" =>
          w.state.status = "error" /\ w.state.error = revertState.error
    /\ revertState.status = "pending" =>
          /\ w.state.status = "pending"
          /\ w.state.fetchStatus = "idle"
          /\ w.state.data = UNDEFINED

C8_Cancel ==
    (queries /\ retryer # 0) =>
        \A revert \in BOOLEAN, silent \in BOOLEAN :
            LET opts == [revert |-> revert, silent |-> silent]
                w == CancelOp(World, opts)
            IN  IF ~retryers[retryer].isResolved
                THEN /\ w.retryers[retryer].isResolved
                     /\ w.retryers[retryer].promise =
                            [settled |-> "rejected", value |-> UNDEFINED,
                             error |-> CancelledError(opts)]
                     /\ w.retryers[retryer].aborted
                     /\ \E i \in DOMAIN w.log : w.log[i] = "abort"
                     /\ \A i \in DOMAIN w.log : w.log[i] # "fn"
                ELSE w = World

\* C8 (step part): a retryer that is resolved is never run again and its
\* promise never changes.
C8_NoFurtherAttempt ==
    \A r \in Slots :
        (retryers[r].isResolved /\ retryers'[r].isResolved) =>
            /\ retryers'[r].calls <= retryers[r].calls
            /\ (r = retryer /\ r = retryer') =>
                   /\ retryers'[r].promise = retryers[r].promise
                   /\ retryers'[r].aborted = retryers[r].aborted

\* C8: cancel(opts) rejects an unresolved retryer at once with a
\* CancelledError carrying revert and silent and invokes abort, after which
\* no attempt of the fetcher is started; a resolved retryer ignores cancel.
C8_Thm == []C8_Cancel /\ [][C8_NoFurtherAttempt]_vars

\* the fetch was cancelled during its retry delay, and the delay has elapsed
\* without another invocation of the fetcher
C8_Witness ==
    /\ retryer # 0
    /\ retryers[retryer].promise.settled = "rejected"
    /\ isCancelledError(retryers[retryer].promise.error)
    /\ retryers[retryer].aborted
    /\ retryers[retryer].failureCount = 1
    /\ retryers[retryer].calls = 1
    /\ retryers[retryer].phase = "finished"

\* the fetcher of the entry's fetch has just resolved with undefined
ResolvedUndefined ==
    /\ retryer # 0
    /\ retryers[retryer].phase = "finished"
    /\ state.error = UndefinedDataError
    /\ log = <<"error", "cache.onError", "cache.onSettled">>

\* C9 as stated: when the fetcher resolves with undefined the entry records
\* an error and is idle, no data is stored, the cache's onError and not its
\* onSuccess callback runs, and the promise fetch() returned does not resolve.
C9_UndefinedRejected ==
    /\ \A r \in Slots :
          (queries /\ retryers[r].phase = "inflight" /\ ~retryers[r].isResolved) =>
              LET w == RetryerResolve(World, r, UNDEFINED) IN
              /\ w.state.status = "error"
              /\ w.state.fetchStatus = "idle"
              /\ w.state.error = UndefinedDataError
              /\ w.state.data = state.data
              /\ w.state.dataUpdatedAt = state.dataUpdatedAt
              /\ w.log = <<"error", "cache.onError", "cache.onSettled">>
    /\ ResolvedUndefined => retryers[retryer].promise.settled # "resolved"

\* the fetcher resolved with undefined: the entry holds the error, and the
\* promise fetch() returned is fulfilled with undefined
C9_Witness ==
    /\ ResolvedUndefined
    /\ state.status = "error"
    /\ state.fetchStatus = "idle"
    /\ retryers[retryer].promise =
           [settled |-> "resolved", value |-> UNDEFINED, error |-> NoError]

\* C10: setData on a fetching entry stores the data, clears the error and
\* sets status success while fetchStatus stays as it is; the fetch in flight
\* then still succeeds, overwrites the data and sets fetchStatus idle.
C10_SetDataWhileFetching ==
    (queries /\ state.fetchStatus = "fetching") =>
        \A updatedAt \in {NoUpdatedAt, now} :
            LET w == SetDataOp(World, ManualData, updatedAt, TRUE) IN
            /\ w.state.data = ManualData
            /\ w.state.error = NoError
            /\ w.state.status = "success"
            /\ w.state.fetchStatus = "fetching"
            /\ w.retryers = retryers
            /\ \A r \in Slots :
                  (r = retryer /\ retryers[r].phase = "inflight" /\ ~retryers[r].isResolved) =>
                      LET w2 == RetryerResolve(w, r, FetchedData) IN
                      /\ w2.state.data = FetchedData
                      /\ w2.state.status = "success"
                      /\ w2.state.fetchStatus = "idle"
                      /\ w2.retryers[r].promise.settled = "resolved"

\* manual data was stored while the first fetch was in flight
C10_Witness ==
    /\ log = <<"success">>
    /\ state.data = ManualData
    /\ state.fetchStatus = "fetching"
    /\ Unsettled
    /\ retryers[retryer].phase = "inflight"
    /\ revertState.status = "pending"

\* ----------------------------------------------------- claims, SpecRetry
Running(r) == retryers[r].phase = "inflight" /\ ~retryers[r].isResolved

\* C2: under a numeric retry n a failed attempt is followed by another one
\* exactly while fewer than n attempts have failed before (a cancelled fetch
\* and one whose retries were cancelled apart), so a fetch invokes the fetcher
\* at most n + 1 times, each attempt being the failures so far plus one; a
\* fetch whose fetcher rejected twice and then resolves under retry = 3 has
\* invoked it 3 times and leaves the entry in success and idle.
C2_Retry ==
    \A r \in Slots :
        /\ retryers[r].calls <= options.retry + 1
        /\ retryers[r].failureCount <= options.retry
        /\ Running(r) =>
              /\ retryers[r].calls = retryers[r].failureCount + 1
              /\ LET w == RunCatch(World, r) IN
                 IF retryers[r].isRetryCancelled
                 THEN w.retryers[r].isResolved
                 ELSE IF retryers[r].failureCount < options.retry
                      THEN /\ ~w.retryers[r].isResolved
                           /\ w.retryers[r].phase = "sleeping"
                           /\ w.retryers[r].failureCount = retryers[r].failureCount + 1
                      ELSE /\ w.retryers[r].isResolved
                           /\ w.retryers[r].promise.error = TransportError
                           /\ w.retryers[r].calls = options.retry + 1
              /\ (options.retry = 3 /\ retryers[r].failureCount = 2) =>
                    LET w == RetryerResolve(World, r, FetchedData) IN
                    /\ w.retryers[r].calls = 3
                    /\ w.retryers[r].promise.settled = "resolved"
                    /\ w.state.status = "success"
                    /\ w.state.fetchStatus = "idle"
                    /\ w.state.data = FetchedData
        /\ (retryers[r].phase \in {"sleeping", "pausedRetry"}
            /\ ~retryers[r].isResolved /\ ~retryers[r].isRetryCancelled) =>
              /\ retryers[r].calls = retryers[r].failureCount
              /\ \A readsSignal \in options.readsSignal :
                    LET w == AfterDelay(World, r, readsSignal) IN
                    /\ w.retryers[r].phase = "inflight"
                    /\ w.retryers[r].calls = retryers[r].calls + 1
                    /\ w.log = <<"fn">>

\* the fetcher rejected twice and then resolved: three invocations, success
C2_Witness ==
    /\ retryer # 0
    /\ retryers[retryer].promise.settled = "resolved"
    /\ retryers[retryer].failureCount = 2
    /\ retryers[retryer].calls = 3
    /\ state.status = "success"
    /\ state.fetchStatus = "idle"
    /\ log = <<"success", "cache.onSuccess", "cache.onSettled">>

InLog(event) == \E i \in DOMAIN log : log[i] = event

\* C3: a failure with retries left, the fetch neither cancelled nor its
\* retries cancelled, surfaces nothing: the promise stays pending, no action
\* is dispatched, no callback runs, the state is untouched and, while the
\* fetch is unsettled, the entry is not idle.  The transport error reaches the
\* cache callback, the state and the promise only from a retryer whose
\* retries are exhausted or cancelled.
C3_NoSurface ==
    /\ \A r \in Slots :
          (Running(r) /\ retryers[r].failureCount < options.retry
           /\ ~retryers[r].isRetryCancelled) =>
              LET w == RunCatch(World, r) IN
              /\ w.state = state
              /\ w.log = <<>>
              /\ w.retryers[r].promise = PendingPromise
              /\ w.gcTimeout = gcTimeout
    /\ Unsettled => state.fetchStatus # "idle"
    /\ \A r \in Slots :
          (Running(r) /\ (retryers[r].failureCount = options.retry
                          \/ retryers[r].isRetryCancelled)) =>
              LET w == RunCatch(World, r) IN
              /\ w.retryers[r].promise.settled = "rejected"
              /\ w.retryers[r].promise.error = TransportError
              /\ r = retryer => /\ w.state.error = TransportError
                                /\ w.state.status = "error"
                                /\ w.state.fetchStatus = "idle"
    /\ InLog("cache.onError") =>
          /\ retryer # 0
          /\ retryers[retryer].promise.error = TransportError
          /\ state.error = TransportError
          /\ \/ retryers[retryer].failureCount = options.retry
             \/ retryers[retryer].isRetryCancelled

\* the second failure of a fetch has just been absorbed by the retryer
C3_Witness ==
    /\ Unsettled
    /\ retryers[retryer].phase = "sleeping"
    /\ retryers[retryer].failureCount = 2
    /\ retryers[retryer].promise = PendingPromise
    /\ state.fetchStatus = "fetching"
    /\ state.status = "pending"
    /\ log = <<>>

\* ------------------------------------------------------- claims, SpecGc
\* C5: when the last observer of a fetching entry unsubscribes and the signal
\* was not consumed, the retryer stays unresolved with its retries cancelled:
\* an attempt in flight still stores its result, a failing one is not
\* retried.  When the signal was consumed the fetch is cancelled with revert:
\* the state is the one before the fetch and a later result is dropped.
C5_LastUnsubscribe ==
    (queries /\ listeners = 1 /\ state.fetchStatus = "fetching" /\ Unsettled) =>
        LET w == OnUnsubscribe(World, 0)
            r == retryer
        IN  IF ~abortSignalConsumed
            THEN /\ ~w.retryers[r].isResolved
                 /\ w.retryers[r].isRetryCancelled
                 /\ w.state = state
                 /\ w.log = <<>>
                 /\ retryers[r].phase = "inflight" =>
                       /\ RetryerResolve(w, r, FetchedData).state.data = FetchedData
                       /\ RetryerResolve(w, r, FetchedData).state.status = "success"
                       /\ RetryerResolve(w, r, FetchedData).state.fetchStatus = "idle"
                       /\ RunCatch(w, r).retryers[r].isResolved
                       /\ RunCatch(w, r).state.status = "error"
            ELSE /\ w.retryers[r].isResolved
                 /\ w.retryers[r].promise.error =
                        CancelledError([revert |-> TRUE, silent |-> FALSE])
                 /\ w.retryers[r].aborted
                 /\ w.state = revertState
                 /\ retryers[r].phase = "inflight" =>
                       RetryerResolve(w, r, FetchedData).state = revertState

\* the last observer left a fetch whose fetcher ignores the signal, and the
\* attempt completed and was cached
C5_WitnessIgnored ==
    /\ listeners = 0
    /\ retryer # 0
    /\ retryers[retryer].isRetryCancelled
    /\ retryers[retryer].promise.settled = "resolved"
    /\ state.data = FetchedData
    /\ ~abortSignalConsumed
    /\ log = <<"success", "cache.onSuccess", "cache.onSettled">>

\* the last observer left a fetch whose fetcher consumed the signal
C5_WitnessConsumed ==
    /\ listeners = 0
    /\ retryer # 0
    /\ abortSignalConsumed
    /\ retryers[retryer].promise.error = CancelledError([revert |-> TRUE, silent |-> FALSE])
    /\ state = revertState
    /\ log = <<"error", "abort">>

C5_Witness == C5_WitnessIgnored \/ C5_WitnessConsumed

GcFired == log # <<>> /\ log[1] = "gcTimeout"

Settles(w) == w.retryers[retryer].isResolved

\* C6, the timer's part: fired on an idle entry without observers it removes
\* the entry; fired during a fetch it removes nothing.
C6_Fire ==
    (queries /\ gcTimeout) =>
        /\ (listeners = 0 /\ state.fetchStatus = "idle") =>
              ~GcFireOp.queries /\ GcFireOp.log = <<"gcTimeout", "removed">>
        /\ (state.fetchStatus # "idle" \/ Unsettled) =>
              GcFireOp.queries /\ GcFireOp.log = <<"gcTimeout">> /\ GcFireOp.state = state

C7_Subscribed ==
    /\ (queries /\ gcTimeout /\ listeners > 0) =>
          GcFireOp.queries /\ GcFireOp.log = <<"gcTimeout">>
    /\ (GcFired /\ InLog("removed")) => listeners = 0

\* the timer of an entry with gcTime 0 fired while an observer was subscribed
C7_Witness ==
    /\ GcFired
    /\ listeners > 0
    /\ queries
    /\ options.gcTime = 0
    /\ state.fetchStatus = "idle"

\* ----------------------------------------------------- claims, SpecStale
\* staleness as the specification words it
StaleBySpec(staleTime) ==
    \/ state.isInvalidated
    \/ state.dataUpdatedAt = 0
    \/ now - state.dataUpdatedAt >= staleTime

Succeeded == log = <<"success", "cache.onSuccess", "cache.onSettled">>

\* C11: isStaleByTime(staleTime) is true exactly when the entry is
\* invalidated, or has dataUpdatedAt = 0, or now - dataUpdatedAt >= staleTime;
\* right after a successful fetch it is false for a positive staleTime, and
\* it is true once staleTime has passed since the data was stored.
C11_StaleByTime ==
    /\ \A staleTime \in StaleTimes :
          isStaleByTime(World, staleTime) <=> StaleBySpec(staleTime)
    /\ Succeeded => ~isStaleByTime(World, 2) /\ ~isStaleByTime(World, Infinity)
    /\ (state.dataUpdatedAt # 0 /\ now >= state.dataUpdatedAt + 2) =>
          isStaleByTime(World, 2)

\* the data of a successful fetch has just reached the age of the stale time
C11_Witness ==
    /\ state.data = FetchedData
    /\ ~state.isInvalidated
    /\ state.fetchStatus = "idle"
    /\ now = state.dataUpdatedAt + 2
    /\ isStaleByTime(World, 2)
    /\ ~isStaleByTime(World, Infinity)
    /\ log = <<>>

\* C12: fetchQuery builds the entry if the hash has none and reuses it
\* otherwise; on an entry that is stale by time for staleTime it calls
\* fetch(), on a fresh one it returns a promise resolved with the cached data,
\* invokes no fetcher, dispatches nothing and leaves the entry as it is.
C12_FetchQuery ==
    \A staleTime \in StaleTimes, readsSignal \in options.readsSignal :
        CanFetchOp(IF queries THEN World ELSE BuildOp(World), FALSE) =>
            LET w == FetchQueryOp(World, staleTime, readsSignal) IN
            /\ w.queries
            /\ queries => \A i \in DOMAIN w.log : w.log[i] # "added"
            /\ ~queries => w.log[1] = "added" /\ w.state.dataUpdatedAt = 0
            /\ IF ~queries \/ StaleBySpec(staleTime)
               THEN /\ w.returned \in Slots
                    /\ w.returned = w.retryer
                    /\ w.state.fetchStatus # "idle"
                    /\ (state.fetchStatus = "idle" \/ ~queries) =>
                          \E i \in DOMAIN w.log : w.log[i] = "fn"
               ELSE /\ w.returned = ResolvedWithData
                    /\ w.state = state
                    /\ w.state.data # UNDEFINED
                    /\ w.retryers = retryers
                    /\ w.retryer = retryer
                    /\ w.gcTimeout = gcTimeout
                    /\ w.log = <<>>

\* fetchQuery has just resolved with the data of a fetch that is not stale
\* for the stale time it was given
C12_Witness ==
    /\ returned = ResolvedWithData
    /\ log = <<>>
    /\ state.data = FetchedData
    /\ state.fetchStatus = "idle"
    /\ now > state.dataUpdatedAt
    /\ ~state.isInvalidated

\* C13: invalidate() on an invalidated entry dispatches nothing, so that no
\* listener and no cache subscriber is notified and the state is the one it
\* was; on any other entry it dispatches one invalidate action.
C13_InvalidateIdempotent ==
    queries =>
        LET w == InvalidateOp(World) IN
        /\ state.isInvalidated => w = World
        /\ ~state.isInvalidated =>
              /\ w.log = <<"invalidate">>
              /\ w.state = [state EXCEPT !.isInvalidated = TRUE]
        /\ InvalidateOp(w) = w

\* an entry with data that was invalidated earlier, as invalidate() leaves it
C13_Witness ==
    /\ queries
    /\ state.isInvalidated
    /\ state.data = FetchedData
    /\ log = <<>>
    /\ InvalidateOp(World) = World

\* ------------------------------------------------ claims, SpecInvalidate
\* is the entry what a type names: all, active or inactive
IsOfType(type) ==
    \/ type = "all"
    \/ type = "active" /\ listeners > disabled
    \/ type = "inactive" /\ ~(listeners > disabled)

MatchesFilters(type) == type = UNDEFINED \/ IsOfType(type)

AllDisabled == listeners > 0 /\ disabled = listeners

\* what invalidateQueries does to every entry, whatever refetches
InvalidatesMatches(w, type) ==
    /\ MatchesFilters(type) => w.state.isInvalidated
    /\ ~MatchesFilters(type) => w.state.isInvalidated = state.isInvalidated
    /\ AllDisabled => w.returned = 0
    /\ w.returned # 0 =>
          /\ w.returned = w.retryer
          /\ ~w.retryers[w.retryer].isResolved
          /\ w.state.fetchStatus # "idle"

\* C14 as stated: the entries refetched are those that match the filters and
\* are of the kind refetchType names, active when there is no refetchType.
C14_AmongMatching ==
    queries =>
        \A type \in TypeFilters, refetchType \in RefetchTypes,
           readsSignal \in options.readsSignal :
            (Refetches(type, refetchType, listeners, disabled) => CanFetchOp(World, TRUE)) =>
                LET w == InvalidateQueriesOp(World, listeners, disabled, type,
                                             refetchType, readsSignal)
                IN  /\ InvalidatesMatches(w, type)
                    /\ w.returned # 0 <=>
                          /\ MatchesFilters(type)
                          /\ refetchType # "none"
                          /\ IsOfType(IF refetchType = UNDEFINED THEN "active"
                                      ELSE refetchType)
                          /\ ~AllDisabled

\* C14, amended: invalidateQueries marks every entry matching the filters
\* invalidated; then, unless refetchType is none, it calls fetch() on the
\* entries that match the filters with their type replaced by refetchType
\* (by filters.type when there is no refetchType, by active when there is
\* neither) and that are not disabled.  For filters without a type these are
\* the matching entries of the kind refetchType names, active by default.
C14_Refetch ==
    queries =>
        \A type \in TypeFilters, refetchType \in RefetchTypes,
           readsSignal \in options.readsSignal :
            (Refetches(type, refetchType, listeners, disabled) => CanFetchOp(World, TRUE)) =>
                LET w == InvalidateQueriesOp(World, listeners, disabled, type,
                                             refetchType, readsSignal)
                    kind == IF refetchType # UNDEFINED THEN refetchType
                            ELSE IF type # UNDEFINED THEN type ELSE "active"
                IN  /\ InvalidatesMatches(w, type)
                    /\ w.returned # 0 <=>
                          /\ refetchType # "none"
                          /\ IsOfType(kind)
                          /\ ~AllDisabled
                    /\ type = UNDEFINED =>
                          (w.returned # 0 <=>
                              /\ refetchType # "none"
                              /\ IsOfType(IF refetchType = UNDEFINED THEN "active"
                                          ELSE refetchType)
                              /\ ~AllDisabled)

\* invalidateQueries has just invalidated and refetched an idle entry that
\* has data and an enabled observer
C14_Witness ==
    /\ log = <<"invalidate", "fetch", "fn">>
    /\ listeners > disabled
    /\ state.isInvalidated
    /\ state.data = FetchedData
    /\ state.fetchStatus = "fetching"
    /\ returned = retryer

\* ----------------------------------------------------- claims, SpecCache
\* C15: build() on a registered hash returns the registered entry and changes
\* nothing; on a free hash it creates one entry, registers it under that
\* hash and broadcasts added once, touching no other entry.  No two
\* registered entries share a hash, every registered entry sits under its
\* own queryHash, and added is broadcast once per entry.
C15_Build ==
    /\ \A h \in Hashes :
          (registry.queries[h] = 0 => Created(registry) # Entries) =>
              LET c == QueryCacheBuild(registry, h)
                  e == QueryCacheGet(c, h)
              IN  IF registry.queries[h] # 0
                  THEN c = registry
                  ELSE /\ e \in Entries \ Created(registry)
                       /\ c.info[e].queryHash = h
                       /\ c.info[e].added = 1
                       /\ c.info[e].removed = 0
                       /\ \A x \in Entries \ {e} : c.info[x] = registry.info[x]
                       /\ \A g \in Hashes \ {h} : c.queries[g] = registry.queries[g]
    /\ \A h \in Hashes :
          registry.queries[h] # 0 => registry.info[registry.queries[h]].queryHash = h
    /\ \A x, y \in Registered(registry) :
          registry.info[x].queryHash = registry.info[y].queryHash => x = y
    /\ \A e \in Created(registry) : registry.info[e].added = 1

\* a hash was built, removed and built again while the other hash is
\* registered too
C15_Witness ==
    /\ Created(registry) = Entries
    /\ \A h \in Hashes : registry.queries[h] # 0
    /\ \E e \in Entries : e \notin Registered(registry) /\ registry.info[e].removed = 1

\* C16: in the QueryCache and in the MutationCache every entry that has left
\* the registry was broadcast as removed exactly once and every registered
\* entry never: clear() empties the registry with one removed event per
\* registered entry, and no later call or timer broadcasts removed again for
\* an entry that is no longer registered.
C16_OneRemoved ==
    /\ \A e \in Created(registry) :
          registry.info[e].removed = IF e \in Registered(registry) THEN 0 ELSE 1
    /\ \A m \in Mutations :
          mutationCache[m].created =>
              mutationCache[m].removed = IF mutationCache[m].registered THEN 0 ELSE 1
    /\ Registered(QueryCacheClear(registry)) = {}
    /\ \A m \in Mutations : ~MutationCacheClear(mutationCache)[m].registered

\* removed was broadcast twice for a QueryInfo and twice for a MutationInfo
C16_Witness ==
    /\ \E e \in Created(registry) :
          e \notin Registered(registry) /\ registry.info[e].removed = 2
    /\ \E m \in Mutations :
          ~mutationCache[m].registered /\ mutationCache[m].removed = 2

\* the events of a trigger() whose mutation function resolves and whose
\* callbacks all return
SuccessRun ==
    <<"dispatch:mutating", "fetcher",
      "start:cache.onSuccess", "end:cache.onSuccess",
      "start:onSuccess", "end:onSuccess",
      "start:cache.onSettled", "end:cache.onSettled",
      "start:onSettled", "end:onSettled",
      "dispatch:success", "resolve">>

\* the events of a trigger() whose mutation function rejects and whose
\* callbacks all return
ErrorRun ==
    <<"dispatch:mutating", "fetcher",
      "start:cache.onError", "end:cache.onError",
      "start:onError", "end:onError",
      "start:cache.onSettled", "end:cache.onSettled",
      "start:onSettled", "end:onSettled",
      "dispatch:error", "reject">>

IsPrefix(s, t) == Len(s) <= Len(t) /\ \A i \in 1..Len(s) : s[i] = t[i]

Terminal == {"dispatch:success", "dispatch:error"}

Settlement == {"resolve", "reject"}

\* C17: the callbacks of a settling mutation run in the order registry
\* onSuccess (or onError), instance onSuccess (or onError), registry
\* onSettled, instance onSettled, each called only after the one before it
\* has returned; until the last of them has returned the status stays
\* mutating and the promise of trigger() pending, the terminal action is
\* dispatched after every callback event, and the promise settles after it.
C17_CallbackOrder ==
    \A m \in Mutations :
        LET mi == mutationCache[m]
            ev == mi.events
        IN  /\ ~mi.threw => IsPrefix(ev, SuccessRun) \/ IsPrefix(ev, ErrorRun)
            /\ (mi.pc = "settled" /\ ~mi.threw) => ev \in {SuccessRun, ErrorRun}
            /\ mi.pc \in {"fetcher", "callback"} =>
                  /\ mi.state.status = "mutating"
                  /\ mi.promise.settled = "pending"
                  /\ \A i \in 1..Len(ev) : ev[i] \notin Terminal \cup Settlement
            /\ \A i \in 1..Len(ev) :
                  /\ ev[i] \in Terminal => i = Len(ev) - 1 /\ ev[i + 1] \in Settlement
                  /\ ev[i] \in Settlement => i = Len(ev) /\ ev[i - 1] \in Terminal
            /\ mi.pc = "callback" =>
                  /\ ev[Len(ev)] = "start:" \o Callbacks(mi.path)[mi.callback]
                  /\ LET c == MutationCallbackReturned(mutationCache, m)
                         n == Len(ev)
                     IN  /\ c[m].events[n + 1] = "end:" \o Callbacks(mi.path)[mi.callback]
                         /\ IF mi.callback < 4
                            THEN /\ c[m].events[n + 2] =
                                        "start:" \o Callbacks(mi.path)[mi.callback + 1]
                                 /\ c[m].state = mi.state
                                 /\ c[m].promise = mi.promise
                            ELSE /\ c[m].events[n + 2] \in Terminal
                                 /\ c[m].events[n + 3] \in Settlement
                                 /\ c[m].promise.settled # "pending"

\* a mutation succeeded and its four callbacks returned one after the other
\* before the success action and the resolution
C17_Witness ==
    \E m \in Mutations :
        /\ mutationCache[m].pc = "settled"
        /\ mutationCache[m].events = SuccessRun
        /\ mutationCache[m].state.status = "success"
        /\ mutationCache[m].promise = [settled |-> "resolved", value |-> MutationData]

\* C18: a trigger() whose mutation function failed ends in status error with
\* the mutation's error in state and data cleared, and its promise rejected,
\* whether its onError / onSettled callbacks return or throw; while these
\* callbacks run, a throw from the running one ends the call in this way.
C18_AlwaysError ==
    \A m \in Mutations :
        LET mi == mutationCache[m] IN
        /\ (mi.fetcherFailed /\ mi.pc = "settled") =>
              /\ mi.state = [status |-> "error", data |-> UNDEFINED, error |-> MutationError]
              /\ mi.promise.settled = "rejected"
              /\ mi.promise.value = IF mi.threw THEN CallbackError ELSE MutationError
        /\ (mi.fetcherFailed /\ mi.pc = "callback") =>
              LET c == MutationCallbackThrew(mutationCache, m) IN
              /\ c[m].pc = "settled"
              /\ c[m].state = [status |-> "error", data |-> UNDEFINED, error |-> MutationError]
              /\ c[m].promise.settled = "rejected"

\* the mutation function failed and an error callback threw: the state is
\* error and the promise rejected
C18_Witness ==
    \E m \in Mutations :
        /\ mutationCache[m].fetcherFailed
        /\ mutationCache[m].threw
        /\ mutationCache[m].pc = "settled"
        /\ mutationCache[m].state.status = "error"
        /\ mutationCache[m].promise.settled = "rejected"

\* C19: when the GC timer of a MutationInfo fires, the mutation is removed
\* from the MutationCache if it has no listener and is not mutating, is kept
\* with the timer armed again if it has no listener and is mutating (its
\* callbacks included), and is kept if it has a listener; a registered
\* mutation without listeners always has its timer armed, so it is removed
\* once it has settled.
C19_MutationGc ==
    \A m \in Mutations :
        LET mi == mutationCache[m]
            c == MutationOnRemove(mutationCache, m)
        IN  /\ (mi.created /\ mi.gcTimeout) =>
                  /\ (mi.listeners = 0 /\ mi.state.status # "mutating") =>
                        ~c[m].registered /\ c[m].removed = mi.removed + 1
                  /\ (mi.listeners = 0 /\ mi.state.status = "mutating") =>
                        /\ c[m].registered = mi.registered
                        /\ c[m].removed = mi.removed
                        /\ c[m].gcTimeout
                  /\ mi.listeners > 0 =>
                        c[m].registered = mi.registered /\ c[m].removed = mi.removed
            /\ (mi.registered /\ mi.listeners = 0) => mi.gcTimeout
            /\ mi.pc \in {"fetcher", "callback"} => "removed" \notin mi.gcOutcomes
            /\ (mi.listeners > 0 /\ mi.registered) => "removed" \notin mi.gcOutcomes

\* the timer fired while the mutation was mutating and was armed again, and
\* fired after the mutation had settled and removed it
C19_Witness ==
    \E m \in Mutations :
        /\ {"rearmed", "removed"} \subseteq mutationCache[m].gcOutcomes
        /\ mutationCache[m].pc = "settled"
        /\ ~mutationCache[m].registered
        /\ mutationCache[m].removed = 1
        /\ mutationCache[m].listeners = 0

\* the selector runs a derivation with data `data` and selector `select`
\* owes: one if there is data and a selector and one of them is not what the
\* previous derivation used, none otherwise
OwedRuns(o, data, select) ==
    IF /\ select # NoSelect
       /\ data # 0
       /\ (~o.derived \/ data # o.derivedData \/ select # o.derivedSelect)
    THEN 1
    ELSE 0

\* C20: across the result derivations of an ObservableQuery (setOptions,
\* getOptimisticResult, updates after a refetch or setData) the selector runs
\* exactly once when the data reference or the selector reference differs
\* from those of the previous derivation, and not at all when both are the
\* same.
C20_SelectorMemo ==
    observer.created =>
        /\ \A select \in Selects \cup {NoSelect} :
              /\ SetOptions(observer, select).selectCalls =
                     observer.selectCalls + OwedRuns(observer, observer.data, select)
              /\ GetOptimisticResult(observer, select).selectCalls =
                     observer.selectCalls + OwedRuns(observer, observer.data, select)
        /\ \A data \in DataRefs :
              UpdateResult([observer EXCEPT !.data = data]).selectCalls =
                  observer.selectCalls + OwedRuns(observer, data, observer.select)

\* the previous derivation already ran the selector on this data, and
\* deriving again with the same selector and the same data runs it again
C20_Witness ==
    /\ observer.created
    /\ observer.derived
    /\ observer.derivedData = observer.data
    /\ observer.derivedSelect = "count"
    /\ observer.selectCalls >= 2
    /\ GetOptimisticResult(observer, "count").selectCalls = observer.selectCalls + 1


\* the fields of an observer a result derivation may write
Derivation(o) ==
    [o EXCEPT !.selectCalls = 0, !.selectResult = 0, !.selectError = NULL,
              !.derived = TRUE, !.derivedData = 0, !.derivedSelect = NoSelect]

\* C21: when the selector throws, the result carries the thrown error and
\* as data the last value a selector returned (undefined if none did), the
\* remembered selectResult is kept, and the derivation writes nothing but
\* the observer's own memo: the entry's cached data is what it was.  An
\* error result the observer holds always has the remembered value as data.
C21_SelectorThrows ==
    /\ (observer.created /\ observer.data # 0) =>
          LET created == CreateResult(observer, "throws")
              set == SetOptions(observer, "throws")
          IN  /\ created.result.error = SelectError
              /\ created.result.data = observer.selectResult
              /\ created.obs.selectResult = observer.selectResult
              /\ created.obs.selectCalls \in {observer.selectCalls, observer.selectCalls + 1}
              /\ created.obs.data = observer.data
              /\ Derivation(created.obs) = Derivation(observer)
              /\ set.currentResult.error = SelectError
              /\ set.currentResult.data = observer.selectResult
              /\ set.data = observer.data
    /\ observer.currentResult.error = SelectError =>
          observer.currentResult.data = observer.selectResult
    /\ observer.selectResult \in {0} \cup {SelectFn(s, d) : s \in Selects \ {"throws"}, d \in DataRefs}

\* a selector returned a value, then the selector of the observer threw: its
\* current result carries the error and the earlier value
C21_Witness ==
    /\ observer.created
    /\ observer.select = "throws"
    /\ observer.data # 0
    /\ observer.currentResult.error = SelectError
    /\ observer.currentResult.data # 0
    /\ observer.currentResult.data = observer.selectResult


\* C22: a result change notifies the listeners exactly when no property was
\* read through trackResult, or a property that was read differs between
\* the previous and the next result, or throwOnError is set and the error
\* differs; without a result change nothing is notified; the first result of
\* an observer notifies; and whether or not the notification is suppressed,
\* the next result becomes the current result.
C22_TrackedProps ==
    /\ observer.created =>
          \A data \in DataRefs \cup {observer.data}, select \in Selects \cup {NoSelect} :
              LET o == [observer EXCEPT !.data = data, !.select = select]
                  prev == observer.currentResult
                  next == CreateResult(o, select).result
                  updated == UpdateResult(o)
                  silenced == UpdateResultWith(o, "listeners: false")
              IN  /\ updated.currentResult = next
                  /\ silenced.currentResult = next
                  /\ next = prev => updated.notified = "unchanged"
                  /\ next # prev =>
                        /\ updated.notified \in {"notified", "suppressed"}
                        /\ silenced.notified = "silenced"
                        /\ updated.notified = "notified" <=>
                               \/ observer.trackedProps = {}
                               \/ \E key \in observer.trackedProps : Differs(key, prev, next)
                               \/ observer.throwOnError /\ prev.error # next.error
    /\ \A data \in DataRefs \cup {0}, select \in Selects \cup {NoSelect} :
          SetOptions([NoObserver EXCEPT !.created = TRUE, !.data = data], select).notified
              = "notified"

\* the caller read only isLoading, and a change of the data was not
\* notified although the current result is the new one
C22_WitnessSuppressed ==
    /\ observer.created
    /\ observer.trackedProps = {"isLoading"}
    /\ observer.notified = "suppressed"
    /\ observer.currentResult.data # 0

\* a change of the error was notified because of throwOnError although the
\* caller read only the data
C22_WitnessThrowOnError ==
    /\ observer.created
    /\ observer.trackedProps = {"data"}
    /\ observer.throwOnError
    /\ observer.notified = "notified"
    /\ observer.currentResult.error = SelectError

\* what setQueries(list) does in the current state
SetQueriesFrom(list) ==
    SetQueries(Started(observableQueries, "setQueries"), list)

\* the list resolves to the same instances at the same indices
SameInstances(list) ==
    FindMatchingObservers(observableQueries, list).observers
        = observableQueries.obsQueries

\* setQueries with an unchanged list subscribes nothing, destroys nothing and
\* emits nothing
UnchangedListIsSilent(list) ==
    LET r == SetQueriesFrom(list)
    IN  SameInstances(list) =>
            /\ r.obsQueries = observableQueries.obsQueries
            /\ r.subscribed = observableQueries.subscribed
            /\ r.subscribedNow = {} /\ r.destroyedNow = {}
            /\ r.emitted = 0

\* setQueries with a changed list, the ObservableQueries having listeners:
\* observers left out are destroyed, new ones subscribed, those of a hash of
\* the previous list reused, the result is in the order of the new list
ChangedListIsAdopted(list) ==
    LET q == observableQueries
        r == SetQueriesFrom(list)
    IN  (~SameInstances(list) /\ q.listeners > 0) =>
            /\ r.destroyedNow = Range(q.obsQueries) \ Range(r.obsQueries)
            /\ r.subscribedNow = Range(r.obsQueries) \ Range(q.obsQueries)
            /\ r.subscribed = Range(r.obsQueries)
            /\ HashesOf(r, r.obsQueries) = list
            /\ \A i \in 1..Len(list) :
                  PrevObserversMap(q, list[i]) # 0 =>
                      r.obsQueries[i] = PrevObserversMap(q, list[i])
            /\ r.result = list

C23_WitnessUnchanged ==
    /\ observableQueries.call = "setQueries"
    /\ observableQueries.listeners > 0
    /\ Len(observableQueries.obsQueries) = 2
    /\ observableQueries.emitted = 0

\* setQueries only removed and reordered: one combined result
C23_WitnessOne ==
    /\ observableQueries.call = "setQueries"
    /\ observableQueries.listeners > 0
    /\ observableQueries.destroyedNow # {}
    /\ observableQueries.emitted = 1

\* what a plain fetch for the given number of pages does in the current state
PlainFetch(pages) == InfiniteFetchFn(infinite, UNDEFINED, pages, 0)

\* the pages a plain fetch is asked for
Requested(pages) ==
    IF pages # 0 THEN pages
    ELSE IF infinite.defined THEN Len(infinite.data.pages) ELSE 0

\* the new page list is what the fetcher returned for the last calls, in order
KeepsLastCalls(r, max) ==
    LET kept == Len(r.data.pageParams)
        n == Len(r.calls)
    IN  /\ kept = (IF max # 0 /\ n > max THEN max ELSE n)
        /\ r.data.pageParams = SubSeq(r.calls, n - kept + 1, n)
        /\ r.data.pages = [i \in 1..kept |-> PageOf(r.data.pageParams[i])]

\* C24: a plain fetch of an infinite query stops as soon as getNextPageParam
\* returns undefined or null: the fetcher is called once per page, each call
\* with the param the previous page gave, never more often than the pages
\* requested; when it stopped early the page list ends at the page without
\* a next param and hasNextPage is false.
C24_StopsAtNullish ==
    \A pages \in 0..MaxPagesAsked :
        LET r == PlainFetch(pages)
            n == Len(r.calls)
            after == [infinite EXCEPT !.data = r.data, !.defined = TRUE]
        IN  /\ ~r.rejected
            /\ n >= 1 /\ n <= Max(1, Requested(pages))
            /\ \A i \in 1..n : ~IsNullish(r.calls[i])
            /\ \A i \in 1..(n - 1) :
                  r.calls[i + 1] =
                      getNextPageParam(infinite.server,
                          [pages |-> <<PageOf(r.calls[i])>>, pageParams |-> <<r.calls[i]>>])
            /\ KeepsLastCalls(r, infinite.maxPages)
            /\ n < Requested(pages) =>
                  /\ IsNullish(getNextPageParam(infinite.server, r.data))
                  /\ r.data.pageParams[Len(r.data.pageParams)] = r.calls[n]
                  /\ ~hasNextPage(after)

\* a plain fetch stopped before the pages requested: hasNextPage is false
C24_Witness ==
    /\ infinite.outcome = "resolved"
    /\ infinite.direction = UNDEFINED
    /\ infinite.pages = 3
    /\ Len(infinite.calls) = 2
    /\ Len(infinite.data.pages) = 2
    /\ ~hasNextPage(infinite)

\* a refetch of the cached pages stopped early since the server lost pages
C24_WitnessRefetch ==
    /\ infinite.outcome = "resolved"
    /\ infinite.direction = UNDEFINED
    /\ infinite.pages = 0
    /\ Len(infinite.oldData.pages) = 3
    /\ Len(infinite.calls) = 1
    /\ infinite.data.pages = <<PageOf(infinite.calls[1])>>
    /\ ~hasNextPage(infinite)

\* what fetchNextPage / fetchPreviousPage does in the current state
MoreFetch(direction) == InfiniteFetchFn(infinite, direction, 0, 0)

\* the param the page param function of the direction gives for the cache
MoreParam(direction) ==
    IF direction = "backward" THEN getPreviousPageParam(infinite.server, infinite.data)
    ELSE getNextPageParam(infinite.server, infinite.data)

\* pages and pageParams have the same length, each page is the page of its
\* param, and with maxPages set the list is no longer than maxPages
Aligned(data, max) ==
    /\ Len(data.pages) = Len(data.pageParams)
    /\ \A i \in 1..Len(data.pages) : data.pages[i] = PageOf(data.pageParams[i])
    /\ max # 0 => Len(data.pages) <= max

\* one page for the param was added at the end of the direction, the page at
\* the opposite end dropped when maxPages would be exceeded
OnePageAdded(direction) ==
    LET old == infinite.data.pageParams
        r == MoreFetch(direction)
        param == MoreParam(direction)
        full == infinite.maxPages # 0 /\ Len(old) + 1 > infinite.maxPages
    IN  /\ r.calls = <<param>>
        /\ r.data.pageParams =
               IF direction = "backward"
               THEN <<param>> \o (IF full THEN SubSeq(old, 1, Len(old) - 1) ELSE old)
               ELSE (IF full THEN Tail(old) ELSE old) \o <<param>>
        /\ Aligned(r.data, infinite.maxPages)

\* C25 as stated: fetchNextPage / fetchPreviousPage on an infinite query
\* with cached pages calls the fetcher for exactly one page, appended or
\* prepended; the list never exceeds maxPages, the opposite end being
\* dropped, and pages and pageParams stay aligned.
C25_ExactlyOnePage ==
    /\ Aligned(infinite.data, infinite.maxPages)
    /\ (infinite.defined /\ Len(infinite.data.pages) > 0) =>
           \A direction \in {"forward", "backward"} : OnePageAdded(direction)

\* C25 amended: the fetcher is called for exactly one page when the page
\* param function of the direction returns a param, and not at all, the
\* pages staying as they are, when it returns undefined or null.
C25_OnePageOrNone ==
    /\ Aligned(infinite.data, infinite.maxPages)
    /\ (infinite.defined /\ Len(infinite.data.pages) > 0) =>
           \A direction \in {"forward", "backward"} :
               IF IsNullish(MoreParam(direction))
               THEN /\ MoreFetch(direction).calls = <<>>
                    /\ MoreFetch(direction).data = infinite.data
                    /\ ~MoreFetch(direction).rejected
               ELSE OnePageAdded(direction)

\* fetchNextPage at maxPages: one call, the first page dropped
C25_Witness ==
    /\ infinite.outcome = "resolved"
    /\ infinite.direction = "forward"
    /\ infinite.maxPages = 2
    /\ Len(infinite.oldData.pages) = 2
    /\ Len(infinite.calls) = 1
    /\ infinite.data.pageParams = <<infinite.oldData.pageParams[2], infinite.calls[1]>>

\* fetchPreviousPage at maxPages: one call, the last page dropped
C25_WitnessPrevious ==
    /\ infinite.outcome = "resolved"
    /\ infinite.direction = "backward"
    /\ infinite.maxPages = 2
    /\ Len(infinite.oldData.pages) = 2
    /\ infinite.data.pageParams = <<infinite.calls[1], infinite.oldData.pageParams[1]>>

\* fetchNextPage without a next page: the fetcher was not called
C25_WitnessNone ==
    /\ infinite.outcome = "resolved"
    /\ infinite.direction = "forward"
    /\ Len(infinite.oldData.pages) > 0
    /\ infinite.calls = <<>>
    /\ infinite.data = infinite.oldData

\* hydrate of the payload into the current client treats the entry of key k
\* as served: skipped when the live entry is `newer`, restored otherwise
Restores(newer(_, _), dehydrated, k) ==
    LET live == hydration.client[k]
        after == hydrate(hydration.client, dehydrated)[k]
    IN  IF ~dehydrated[k].exists THEN after = live
        ELSE IF live.exists /\ newer(live.dataUpdatedAt, dehydrated[k].dataUpdatedAt)
        THEN after = live
        ELSE /\ after = [dehydrated[k] EXCEPT !.fetchStatus = "idle"]
             /\ after.fetchStatus = "idle"

Newer(a, b) == a > b

NewerOrEqual(a, b) == a >= b

C26_WitnessEqual ==
    /\ hydration.hydrated
    /\ hydration.before["string"].dataUpdatedAt = 2
    /\ hydration.payload["string"].dataUpdatedAt = 2
    /\ hydration.payload["string"].data # hydration.before["string"].data
    /\ hydration.client["string"] = hydration.before["string"]

\* hydrate skipped a serialized entry older than the live one
C26_WitnessSkipped ==
    /\ hydration.hydrated
    /\ hydration.before["string"].dataUpdatedAt = 2
    /\ hydration.payload["string"].dataUpdatedAt = 1
    /\ hydration.client["string"] = hydration.before["string"]

\* two values are the same up to the order of the properties, at any depth
RECURSIVE SameValue(_, _)
SameValue(v, w) ==
    IF v.atom # "object" \/ w.atom # "object" THEN v.atom = w.atom
    ELSE /\ \A name \in PropNames : HasProp(v, name) <=> HasProp(w, name)
         /\ \A name \in PropNames :
               HasProp(v, name) => SameValue(PropOf(v, name), PropOf(w, name))

\* the value JSON.stringify writes: NaN as null, no property with the value
\* undefined
RECURSIVE AsWritten(_)
AsWritten(val) ==
    IF val.atom # "object" THEN Atom(StringifyAtom(val.atom))
    ELSE LET names == Written(val, InsertionOrder(val))
         IN  Obj([i \in 1..Len(names) |-> <<names[i], AsWritten(PropOf(val, names[i]))>>])

\* the hashes of the last step are those of hashKey
Hashed ==
    keys.step # "none" =>
        /\ keys.hash = hashKey(keys.key, keys.variables)
        /\ keys.otherHash = hashKey(keys.key, keys.other)

\* C27, first half: the hash of a key and variables is the same however the
\* properties of the variables are ordered, at any depth; checked for the
\* variables of the last step and, before any step, against all variables.
OrderIndependent ==
    /\ Hashed
    /\ SameValue(keys.variables, keys.other) => keys.otherHash = keys.hash
    /\ keys.step = "none" =>
          \A other \in Variables :
              SameValue(keys.variables, other) =>
                  hashKey(keys.key, other) = hashKey(keys.key, keys.variables)

\* C27 as stated: the hash does not depend on the order of the properties
\* at any depth, and variables that differ in a value, or another key, give
\* another hash.
C27_HashIsInjective ==
    /\ OrderIndependent
    /\ ~SameValue(keys.variables, keys.other) => keys.otherHash # keys.hash
    /\ keys.step = "none" =>
          \A k \in KeyNames, other \in Variables :
              (k # keys.key \/ ~SameValue(keys.variables, other)) =>
                  hashKey(k, other) # hashKey(keys.key, keys.variables)

\* C27 amended: ... and variables that differ in a value JSON.stringify
\* writes give another hash; a property whose value is undefined hashes like
\* no property, NaN like null.
C27_HashOfWritten ==
    /\ OrderIndependent
    /\ ~SameValue(AsWritten(keys.variables), AsWritten(keys.other))
           <=> keys.otherHash # keys.hash
    /\ keys.step = "none" =>
          \A k \in KeyNames, other \in Variables :
              (k # keys.key \/ ~SameValue(AsWritten(keys.variables), AsWritten(other)))
                  <=> hashKey(k, other) # hashKey(keys.key, keys.variables)

\* variables with two nested objects and their reordering, hashed the same
C27_Witness ==
    /\ keys.step = "reordered"
    /\ keys.variables.atom = "object"
    /\ Len(keys.variables.props) = 2
    /\ keys.variables.props[1][2].atom = "object"
    /\ Len(keys.variables.props[1][2].props) = 2
    /\ keys.other # keys.variables
    /\ InsertionOrder(keys.other) # InsertionOrder(keys.variables)
    /\ keys.otherHash = keys.hash

\* variables that differ in the value of a nested property, hashed apart
C27_WitnessChanged ==
    /\ keys.step = "changed"
    /\ ~SameValue(AsWritten(keys.variables), AsWritten(keys.other))
    /\ keys.variables.atom = "object"
    /\ keys.otherHash # keys.hash

\* variables that differ in a value and have the same hash
C27_WitnessCollision ==
    /\ keys.step = "changed"
    /\ ~SameValue(keys.variables, keys.other)
    /\ keys.otherHash = keys.hash

\* the types of the events of a kind, in order
TypesOf(kind) ==
    LET events == SelectSeq(notifications, LAMBDA e : e[1] = kind)
    IN  [i \in 1..Len(events) |-> events[i][2]]

\* C28: a transition of an entry and its notifications, the listeners' and
\* then the cache's 'updated' event, are one step: no other transition of
\* the entry is applied between a dispatch and its notifications, even when
\* a listener reacts by calling setData, fetch, cancel or invalidate, and the
\* cache's subscribers see the 'updated' events in the order the
\* transitions were applied.
C28_DispatchIsAtomic ==
    /\ \A i, j \in 1..Len(notifications) :
          (i < j /\ notifications[i][1] = "applied" /\ notifications[j][1] = "applied") =>
              \E k \in (i + 1)..(j - 1) : notifications[k][1] = "updated"
    /\ TypesOf("updated") = TypesOf("applied")

\* a listener reacted to 'invalidate' with setData: the cache's subscribers
\* saw 'success' before 'invalidate'
C28_Witness ==
    /\ TypesOf("applied") = <<"invalidate", "success">>
    /\ TypesOf("updated") = <<"success", "invalidate">>
    /\ state.status = "success"
    /\ state.isInvalidated = FALSE

\* a listener that does not react: the transition and its notifications
C28_WitnessQuiet ==
    notifications = <<<<"applied", "success">>, <<"listener", "success">>,
                      <<"updated", "success">>>>

\* the state after dispatch({ type: 'fetch', meta }) in the current state
Fetching(meta) == Reducer(World, [type |-> "fetch", meta |-> meta])

\* the fetch action: fetching or paused by the transport, pending without
\* error only when no data was ever cached, data and all else as they were
C29_FetchAction ==
    \A meta \in Metas :
        /\ Fetching(meta).fetchStatus =
               (IF canFetch(World, options.networkMode) THEN "fetching" ELSE "paused")
        /\ Fetching(meta).data = state.data
        /\ Fetching(meta).dataUpdatedAt = state.dataUpdatedAt
        /\ Fetching(meta).isInvalidated = state.isInvalidated
        /\ IF state.dataUpdatedAt = 0
           THEN Fetching(meta).status = "pending" /\ Fetching(meta).error = NoError
           ELSE Fetching(meta).status = state.status /\ Fetching(meta).error = state.error

\* a step of a refetch of cached data that does not settle it, nobody
\* setting data or resetting the entry, leaves data, status and error alone
C29_WhileRefetching ==
    (/\ state.dataUpdatedAt # 0
     /\ state.fetchStatus # "idle" /\ state'.fetchStatus # "idle"
     /\ \A i \in 1..Len(log') : log'[i] \notin {"success", "error", "setState"})
        => /\ state'.data = state.data
           /\ state'.status = state.status
           /\ state'.error = state.error

\* C29: dispatching 'fetch' sets fetchStatus to 'fetching' when the transport
\* is reachable and to 'paused' otherwise; it resets status to 'pending' and
\* clears the error only if dataUpdatedAt = 0; with data cached, data, status
\* and error stay as they are for the whole refetch: an entry in 'error' with
\* data stays in 'error' until the refetch settles.
C29_Fetch == []C29_FetchAction /\ [][C29_WhileRefetching]_vars

\* an entry in 'error' with cached data is refetching and still in 'error'
C29_Witness ==
    /\ state.status = "error"
    /\ state.error # NoError
    /\ state.dataUpdatedAt # 0
    /\ state.data # UNDEFINED
    /\ state.fetchStatus = "fetching"
    /\ InLog("fetch")

\* the fetch action of an entry without data found the transport unreachable
C29_WitnessPaused ==
    /\ state.status = "pending"
    /\ state.dataUpdatedAt = 0
    /\ state.fetchStatus = "paused"
    /\ ~online

\* C30: in every reachable state of an entry, dataUpdatedAt = 0 if and only
\* if no data has ever been cached (data is undefined): fetch, success,
\* error, revert, setData and setQueryData with or without a timestamp of
\* the caller, reset and initialData all keep it so.
C30_DataUpdatedAt == (state.dataUpdatedAt = 0) <=> (state.data = UNDEFINED)

\* setData or setQueryData with updatedAt 0 cached data stamped 0
C30_Witness ==
    /\ (InLog("setData") \/ InLog("setQueryData"))
    /\ InLog("success")
    /\ state.data = ManualData
    /\ state.status = "success"
    /\ state.dataUpdatedAt = 0

\* the entry was built with initialData and initialDataUpdatedAt 0
C30_WitnessInitialData ==
    /\ options.initialData = InitialData
    /\ state.data = InitialData
    /\ state.status = "success"
    /\ state.dataUpdatedAt = 0
    /\ log = <<>>

\* queryInfo.setData with an updater that yields undefined stamped no data
C30_WitnessUndefined ==
    /\ InLog("setData")
    /\ state.data = UNDEFINED
    /\ state.status = "success"
    /\ state.dataUpdatedAt # 0

\* a fetch of data stamped 0 reset the status to 'pending' over the data
C30_WitnessPendingWithData ==
    /\ InLog("fetch")
    /\ state.data # UNDEFINED
    /\ state.dataUpdatedAt = 0
    /\ state.status = "pending"
    /\ state.fetchStatus = "fetching"

\* a step that takes no timestamp from a caller or from the options (no
\* setData, setQueryData or reset) and reverts nothing keeps the equivalence
C30_FetchKeepsIt ==
    (/\ C30_DataUpdatedAt
     /\ \A i \in 1..Len(log') : log'[i] \notin {"setData", "setQueryData", "setState"}
     /\ state' # revertState)
        => C30_DataUpdatedAt'

C30_KeptByFetching == [][C30_FetchKeepsIt]_vars

\* fetch() that creates a retryer while the transport is unreachable: the
\* retryer is paused, the fetcher was not invoked, fetchStatus is 'paused'
C31_PausedAtCreation ==
    \A cancelRefetch \in BOOLEAN, readsSignal \in options.readsSignal :
        (/\ ~canFetch(World, options.networkMode)
         /\ CanFetchOp(World, cancelRefetch)
         /\ ~FetchReturnsPromise(World, cancelRefetch))
            => LET w == FetchOp(World, cancelRefetch, UNDEFINED, readsSignal) IN
               /\ w.retryers[w.retryer].phase = "pausedInit"
               /\ w.retryers[w.retryer].calls = 0
               /\ \A i \in 1..Len(w.log) : w.log[i] # "fn"
               /\ w.state.fetchStatus = "paused"

\* a retryer still paused at its start has never invoked the fetcher, and
\* the entry it belongs to is 'paused'
C31_NotInvokedWhilePaused ==
    \A r \in Slots :
        retryers[r].phase = "pausedInit"
            => /\ retryers[r].calls = 0
               /\ (r = retryer /\ ~retryers[r].isResolved) => state.fetchStatus = "paused"

\* the step in which a retryer paused at its start first invokes the fetcher
\* (the step cancels nothing: the slot holds the same retryer after it)
FirstInvoked(r) ==
    /\ retryers[r].phase = "pausedInit"
    /\ ~retryers[r].isResolved
    /\ retryers'[r].calls = 1
    /\ \A i \in 1..Len(log') : log'[i] # "abort"

\* the first invocation comes with the continue signal, the process online
\* and focused, and fetchStatus back to 'fetching'
C31_FirstInvocation ==
    \A r \in Slots :
        FirstInvoked(r)
            => /\ online' /\ focused'
               /\ \E i \in 1..Len(log') : log'[i] = "continue"
               /\ state'.fetchStatus = "fetching"

\* the retryer of a slot has resolved or rejected its promise (a retryer
\* that settled and that nothing refers to any more has left its slot)
Settled(r) == retryers[r].isResolved \/ retryers[r].phase \in {"none", "finished"}

\* the retryer of a slot has an attempt in flight or waits for its next one
Attempting(r) == retryers[r].phase \in {"inflight", "sleeping"} /\ ~retryers[r].isResolved

\* the entry's retryer waits for focus and connectivity
PausedFetch ==
    retryer # 0 /\ Paused(retryers[retryer].phase) /\ ~retryers[retryer].isResolved

\* C31: a retryer created while the transport is unreachable (network mode
\* 'online', offline) is paused without invoking the fetcher, fetchStatus is
\* 'paused'; the fetcher is first invoked only once focus and connectivity
\* are both there and the continue signal is delivered, fetchStatus then
\* returns to 'fetching', and the fetch eventually settles: a paused retryer
\* does not stay paused for ever, and a retryer that runs eventually settles
\* unless it is paused once more.
C31_PausedRetryer ==
    /\ []C31_PausedAtCreation
    /\ []C31_NotInvokedWhilePaused
    /\ [][C31_FirstInvocation]_vars
    /\ PausedFetch ~> ~PausedFetch
    /\ \A r \in Slots : Attempting(r) ~> (Settled(r) \/ Paused(retryers[r].phase))

\* a fetch paused at its start was resumed and its first attempt is in flight
C31_Witness ==
    /\ retryer # 0
    /\ retryers[retryer].phase = "inflight"
    /\ retryers[retryer].calls = 1
    /\ retryers[retryer].failureCount = 0
    /\ state.fetchStatus = "fetching"
    /\ InLog("continue")
    /\ InLog("fn")

\* fetch() in the current state
Fetched(cancelRefetch, readsSignal) == FetchOp(World, cancelRefetch, UNDEFINED, readsSignal)

\* the entry is paused and refers to a retryer
PausedEntry == state.fetchStatus = "paused" /\ retryer # 0

\* the calls of the fetcher the retryers have made
Calls(rs) == [r \in Slots |-> rs[r].calls]

\* C32: fetch() on an entry whose fetchStatus is 'paused' creates no second
\* retryer and starts no second execution of the fetcher: it resumes the
\* paused retryer (which, the process being online and focused, leaves its
\* pause) and returns that retryer's promise.
C32_ResumesPaused ==
    PausedEntry =>
        \A cancelRefetch \in BOOLEAN, readsSignal \in options.readsSignal :
            CanFetchOp(World, cancelRefetch) =>
                LET w == Fetched(cancelRefetch, readsSignal) IN
                /\ w.retryer = retryer
                /\ w.returned = retryer
                /\ \A i \in 1..Len(w.log) : w.log[i] # "abort"
                /\ (PausedFetch /\ ~shouldPause(World))
                       => ~Paused(w.retryers[retryer].phase)

\* fetch() on a paused entry, unless it is a cancelRefetch of cached data,
\* creates no retryer, calls no fetcher and dispatches nothing: it returns
\* the promise of the entry's retryer, clears that retryer's cancelled-retry
\* flag and leaves it paused. A cancelRefetch of cached data cancels the
\* retryer silently and creates another one, which calls the fetcher at once
\* when the transport is reachable.
C32_PausedStaysPaused ==
    PausedEntry =>
        \A cancelRefetch \in BOOLEAN, readsSignal \in options.readsSignal :
            CanFetchOp(World, cancelRefetch) =>
                LET w == Fetched(cancelRefetch, readsSignal) IN
                IF ~(state.dataUpdatedAt # 0 /\ cancelRefetch)
                THEN /\ w.retryer = retryer
                     /\ w.returned = retryer
                     /\ w.log = <<>>
                     /\ w.state = state
                     /\ w.retryers = [retryers EXCEPT ![retryer].isRetryCancelled = FALSE]
                ELSE /\ w.returned = w.retryer
                     /\ ~retryers[retryer].isResolved
                            => \E i \in 1..Len(w.log) : w.log[i] = "abort"
                     /\ w.retryers[w.retryer].calls =
                            (IF canFetch(World, options.networkMode) THEN 1 ELSE 0)
                     /\ w.retryers[w.retryer].phase =
                            (IF canFetch(World, options.networkMode)
                             THEN "inflight" ELSE "pausedInit")

\* fetch() has just returned the promise of a retryer that is still paused
\* although the process is online and focused
C32_Witness ==
    /\ PausedEntry
    /\ PausedFetch
    /\ ~shouldPause(World)
    /\ returned = retryer
    /\ log = <<>>
    /\ retryers[retryer].calls = 0

\* a cancelRefetch of the cached data of a paused entry created a retryer
\* that called the fetcher
C32_WitnessSecondRetryer ==
    /\ state.dataUpdatedAt # 0
    /\ InLog("abort")
    /\ InLog("fn")
    /\ returned = retryer
    /\ retryers[retryer].calls = 1
    /\ ~focused

\* continueRetry() on retryer r
ContinueRetry(w, r) == [w EXCEPT !.retryers[r].isRetryCancelled = FALSE]

\* retryer r has failed fewer times than it may retry
RetriesLeft(r) == retryers[r].failureCount < options.retry

\* retryer r waits for its delay or for connectivity, its retries cancelled
CancelledWaiting(r) ==
    /\ retryers[r].phase \in {"sleeping", "pausedRetry"}
    /\ ~retryers[r].isResolved
    /\ retryers[r].isRetryCancelled

\* after cancelRetry() an attempt in flight still delivers its success
C33_SuccessDelivered ==
    \A r \in Slots :
        (Running(r) /\ retryers[r].isRetryCancelled) =>
            LET w == RetryerResolve(World, r, FetchedData) IN
            /\ w.retryers[r].promise.settled = "resolved"
            /\ r = retryer => /\ w.state.data = FetchedData
                              /\ w.state.status = "success"
                              /\ w.state.fetchStatus = "idle"

\* the decision after the delay: no attempt while the flag is set, the next
\* attempt when continueRetry() cleared it before
C33_AfterDelay ==
    \A r \in Slots :
        CancelledWaiting(r) =>
            \A readsSignal \in options.readsSignal :
                /\ LET w == AfterDelay(World, r, readsSignal) IN
                   /\ w.retryers[r].calls = retryers[r].calls
                   /\ w.retryers[r].promise.settled = "rejected"
                   /\ w.retryers[r].promise.error = TransportError
                /\ LET w == AfterDelay(ContinueRetry(World, r), r, readsSignal) IN
                   /\ w.retryers[r].calls = retryers[r].calls + 1
                   /\ w.retryers[r].phase = "inflight"
                   /\ w.retryers[r].promise = PendingPromise

\* no step calls the fetcher again for a retryer whose retries stay
\* cancelled; the first attempt of a retryer paused at its start is no retry
C33_NoFurtherAttempt ==
    \A r \in Slots :
        (retryers[r].isRetryCancelled /\ retryers'[r].isRetryCancelled
         /\ retryers[r].calls > 0)
            => retryers'[r].calls = retryers[r].calls

\* C33: after cancelRetry() an attempt in flight keeps running and its
\* success is delivered and cached, and no further attempt is started; the
\* flag is consulted only at the decision after the backoff delay: a failing
\* attempt with retries left enters its delay whatever the flag says, so
\* that continueRetry() before the end of the delay lets the retries go on.
C33_ConsultedAfterDelayOnly ==
    /\ C33_SuccessDelivered
    /\ C33_AfterDelay
    /\ \A r \in Slots :
          (Running(r) /\ RetriesLeft(r)) =>
              LET w == RunCatch(World, r) IN
              /\ ~w.retryers[r].isResolved
              /\ w.retryers[r].phase = "sleeping"

\* After cancelRetry() an attempt in flight keeps running and its success is
\* delivered and cached, and no further attempt is started.  The flag is
\* consulted twice: when an attempt fails, before the delay, where a set flag
\* rejects the promise at once with the attempt's error, and again after the
\* delay (and the pause).  continueRetry() lets the retries go on when it
\* comes before the next of these two decisions.  The first attempt of a
\* retryer paused at its start is made whatever the flag says.
C33_ConsultedTwice ==
    /\ [](C33_SuccessDelivered /\ C33_AfterDelay)
    /\ [][C33_NoFurtherAttempt]_vars
    /\ [](\A r \in Slots :
            (Running(r) /\ RetriesLeft(r)) =>
                /\ LET w == RunCatch(World, r) IN
                   IF retryers[r].isRetryCancelled
                   THEN /\ w.retryers[r].promise.settled = "rejected"
                        /\ w.retryers[r].promise.error = TransportError
                        /\ w.retryers[r].failureCount = retryers[r].failureCount
                   ELSE /\ ~w.retryers[r].isResolved
                        /\ w.retryers[r].phase = "sleeping"
                /\ LET w == RunCatch(ContinueRetry(World, r), r) IN
                   /\ ~w.retryers[r].isResolved
                   /\ w.retryers[r].phase = "sleeping")

\* an attempt failed with retries left while the retries were cancelled: the
\* fetch was rejected at once, before any delay
C33_Witness ==
    /\ retryer # 0
    /\ retryers[retryer].isRetryCancelled
    /\ RetriesLeft(retryer)
    /\ retryers[retryer].calls = retryers[retryer].failureCount + 1
    /\ retryers[retryer].promise.settled = "rejected"
    /\ retryers[retryer].promise.error = TransportError
    /\ state.status = "error"
    /\ InLog("error")

\* a retryer whose retries were cancelled during its delay was rejected
\* after the delay without another attempt
C33_WitnessAfterDelay ==
    /\ retryer # 0
    /\ retryers[retryer].isRetryCancelled
    /\ retryers[retryer].failureCount > 0
    /\ retryers[retryer].calls = retryers[retryer].failureCount
    /\ retryers[retryer].promise.settled = "rejected"
    /\ retryers[retryer].promise.error = TransportError
    /\ InLog("error")

\* ---------------------------------------------------- claims, SpecTrigger
\* the trigger() calls that have not been made yet
FreeTriggers == {t \in Triggers : mutationInfo.triggers[t].pc = "none"}

\* C34: trigger(variables) on a MutationInfo whose status is already
\* 'mutating' dispatches no 'mutating' action, notifies no listener at the
\* time of the call and leaves the state, variables and data included, as it
\* was.
C34_TriggerWhileMutating ==
    (mutationInfo.created /\ mutationInfo.state.status = "mutating") =>
        \A t \in FreeTriggers, variables \in MutationVariables, isOnline \in BOOLEAN :
            LET mi == InfoTrigger(InfoStart(mutationInfo), t, variables, isOnline) IN
            /\ mi.dispatched = <<>>
            /\ mi.notified = 0
            /\ mi.state = mutationInfo.state

\* trigger() was called with other variables while the MutationInfo was
\* mutating: nothing was dispatched and the state keeps the first variables
C34_Witness ==
    /\ mutationInfo.state.status = "mutating"
    /\ mutationInfo.dispatched = <<>>
    /\ mutationInfo.notified = 0
    /\ mutationInfo.triggers[1].pc = "fetcher"
    /\ mutationInfo.triggers[2].pc = "fetcher"
    /\ mutationInfo.triggers[2].variables # mutationInfo.triggers[1].variables
    /\ mutationInfo.state.variables = mutationInfo.triggers[1].variables

\* the transitions of the status the state machine allows
AllowedTransitions ==
    {<<"idle", "mutating">>, <<"mutating", "success">>, <<"mutating", "error">>,
     <<"success", "mutating">>, <<"error", "mutating">>,
     <<"success", "idle">>, <<"error", "idle">>, <<"mutating", "idle">>}

\* C35: the status of a MutationInfo moves only from idle to mutating, from
\* mutating to success or error, from success or error to mutating by a new
\* trigger, and back to idle by a reset: whatever the interleaving of
\* trigger() calls, no dispatch takes it from one terminal status to a
\* terminal status without 'mutating' in between.
C35_Transitions ==
    (mutationInfo.from # "none" /\ mutationInfo.from # mutationInfo.state.status) =>
        <<mutationInfo.from, mutationInfo.state.status>> \in AllowedTransitions

\* two trigger() calls overlapped: the first one's success was dispatched,
\* then the second one's error, with no 'mutating' in between
C35_Witness ==
    /\ mutationInfo.from = "success"
    /\ mutationInfo.state.status = "error"
    /\ mutationInfo.dispatched = <<"error">>
    /\ mutationInfo.triggers[1].promise = "resolved"
    /\ mutationInfo.triggers[2].promise = "rejected"

\* a trigger() call waits for connectivity, its mutation function not called
PausedTrigger(t) == mutationInfo.triggers[t].pc = "paused"

\* a trigger() call made while offline under networkMode 'online' is paused
\* and has not called the mutation function
C39_PausedWhenOffline ==
    \A t \in Triggers :
        /\ PausedTrigger(t) => /\ mutationInfo.triggers[t].calls = 0
                               /\ mutationInfo.triggers[t].promise = "pending"
                               /\ mutationInfo.networkMode = "online"
        /\ (mutationInfo.triggers[t].offline /\ mutationInfo.triggers[t].calls = 0)
              => PausedTrigger(t)

\* C39: a mutation triggered while offline is paused without calling the
\* mutation function, and once connectivity and focus are back with the
\* client mounted it eventually runs: its callbacks fire and its promise
\* settles.
C39_PausedMutationResumes ==
    /\ []C39_PausedWhenOffline
    /\ \A t \in Triggers :
          PausedTrigger(t) ~> (mutationInfo.triggers[t].promise # "pending")

\* a mutation triggered offline is still paused, its mutation function not
\* called, with the process online and focused again
C39_Witness ==
    /\ PausedTrigger(1)
    /\ mutationInfo.triggers[1].calls = 0
    /\ mutationInfo.state.status = "mutating"
    /\ online
    /\ focused

\* ------------------------------------------------- claims, Spec (fetchStatus)
\* C36: fetchStatus is 'fetching' or 'paused' only while the entry owns a
\* retryer that has not yet resolved or rejected: once a retryer has settled
\* or was cancelled, in whatever way, fetchStatus is 'idle', so that a later
\* fetch() starts a new fetch instead of returning the finished promise.
C36_FetchStatusOwnsRetryer ==
    /\ state.fetchStatus # "idle" => Unsettled
    /\ (queries /\ ~Unsettled) =>
          \A cancelRefetch \in BOOLEAN :
              CanFetchOp(World, cancelRefetch) => ~FetchReturnsPromise(World, cancelRefetch)

\* a fetch() has just returned the promise of a retryer that a silent cancel
\* rejected: the entry still says 'fetching' and no fetcher was called
C36_Witness ==
    /\ state.fetchStatus = "fetching"
    /\ retryer # 0
    /\ retryers[retryer].isResolved
    /\ retryers[retryer].promise.settled = "rejected"
    /\ retryers[retryer].promise.error = CancelledError(Silent)
    /\ returned = retryer
    /\ log = <<>>

\* ------------------------------------------------------ claims, SpecLeak
\* the entry is registered, has no subscriber and no fetch in flight
Evictable ==
    /\ queries
    /\ listeners = 0
    /\ state.fetchStatus = "idle"
    /\ ~Unsettled

\* C37: an entry with a finite gcTime is eventually removed from the
\* QueryCache once it has no subscriber and no fetch in flight, whatever
\* fetch, fetchOptimistic, setData, cancel, subscribe and unsubscribe came
\* before: the GC timer is armed whenever the entry is unsubscribed and idle.
C37_EventuallyRemoved ==
    /\ [](Evictable => gcTimeout)
    /\ Evictable ~> ~Evictable

\* an entry without subscribers whose fetchOptimistic() settled after the GC
\* timer had fired: idle, registered, no timer armed
C37_Witness ==
    /\ Evictable
    /\ ~gcTimeout
    /\ isValidTimeout(options.gcTime)
    /\ retryer # 0
    /\ retryers[retryer].promise.settled = "resolved"
    /\ InLog("success")

\* ----------------------------------------------- claims, SpecCache (remove)
\* the entries that were created and are not the one registered under their
\* hash
Unregistered(c) == Created(c) \ Registered(c)

\* C38: QueryCache.remove(e) for an entry e that is not the one registered
\* under e's hash leaves the registry as it is: the registered entry keeps
\* its GC timer and its place, and no 'removed' event is broadcast.
C38_StaleRemove ==
    \A e \in Unregistered(registry) : QueryCacheRemove(registry, e) = registry

\* remove() of an entry that had left the registry destroyed the entry that
\* took its place: registered, without observers, its GC timer cleared, and
\* 'removed' was broadcast again for the argument
C38_Witness ==
    \E e \in Unregistered(registry), f \in Registered(registry) :
        /\ registry.info[f].queryHash = registry.info[e].queryHash
        /\ registry.info[e].removed = 2
        /\ registry.info[f].removed = 0
        /\ registry.info[f].observers = 0
        /\ ~registry.info[f].gcTimeout

\* --------------------------------------- claims, SpecSelect (selectError)
\* the result createResult() builds now from the observer's options
ResultNow == CreateResult(observer, observer.select).result

\* C40: a selection error is not sticky: the error of a result is the
\* selector's error only if the selector configured now threw on the data
\* the QueryInfo holds now; once the selector was removed or replaced, the
\* result's error and data derive from the QueryInfo alone.
C40_SelectErrorNotSticky ==
    observer.created =>
        /\ ResultNow.error = SelectError =>
              /\ observer.select = "throws"
              /\ observer.data # 0
        /\ observer.select = NoSelect =>
              /\ ResultNow.error = NULL
              /\ ResultNow.data = observer.data

\* the observer's current result was built without a selector from data the
\* entry holds, and still carries the error of the selector that was removed
C40_Witness ==
    /\ observer.created
    /\ observer.select = NoSelect
    /\ observer.currentResultOptions = NoSelect
    /\ observer.currentResultState = observer.data
    /\ observer.data # 0
    /\ observer.currentResult.defined
    /\ observer.currentResult.error = SelectError
    /\ observer.currentResult.data # observer.data

====
